---- MODULE Spec2Model ----
(***************************************************************************)
(* A model of the flux bootstrap engine:                                   *)
(*   - the go-git repository driver (internal/bootstrap/git/gogit),        *)
(*   - the GitLab bootstrap run (cmd/flux/bootstrap_gitlab.go).            *)
(* Each part has its own specification over its own variables; the other   *)
(* part's variables stay at their initial values.                          *)
(***************************************************************************)
EXTENDS Integers, Sequences, FiniteSets, TLC

VARIABLES
    repository,   \* GoGit.repository: "nil" or "open"
    origin,       \* URL of the remote named origin in the local config
    headRef,      \* branch the local symbolic HEAD points to
    head,         \* commit the HEAD branch points to; 0: the branch is unborn
    index,        \* the staging area: path -> blob
    worktree,     \* the files under GoGit.path: path -> file kind
    commits,      \* the object store: commit id -> [parent, tree]
    remote,       \* the hosted repositories: url -> branch -> commit (0: absent)
    ret           \* the last driver call, its arguments, result and pre-state

gitVars == <<repository, origin, headRef, head, index, worktree, commits,
             remote, ret>>

VARIABLES
    pc,           \* per bootstrap run: the statement of bootstrapGitLabCmdRun
                  \* it is at
    par,          \* per run: its parameters (GITLAB_TOKEN, --ssh-hostname
                  \* given, whether the flags pass bootstrapValidate)
    tmpDir,       \* per run: whether its temporary directory exists
    clone,        \* per run: its working copy (the remote commit it is based
                  \* on, the committed tree, the files on disk)
    made,         \* per run: the commits it has created
    pushed,       \* per run: the pushes it has attempted
    install,      \* per run: what became of the install step
    cause,        \* per run: the error it returned
    succ,         \* per run: it started after the other run had finished
                  \* successfully with the same parameters
    hosted,       \* the GitLab project: the head of the bootstrap branch
                  \* (0: no project) and its tree
    cluster       \* the environment: installed components, the credential
                  \* secret, the sync objects and whether they were reconciled

bootVars == <<pc, par, tmpDir, clone, made, pushed, install, cause, succ,
              hosted, cluster>>

VARIABLES
    target,       \* the object a readiness poll watches: its kind, its Ready
                  \* condition and whether its status is of its generation
    poll          \* the poll: where wait.PollImmediate is, the time elapsed
                  \* in poll intervals, the last observation, the result

pollVars == <<target, poll>>

VARIABLES
    cred,         \* a command that provisions a credential: which command,
                  \* the statement it is at, the key pair and host key it
                  \* holds, the secret it is about to store, the answer to
                  \* its prompt, the error it returned
    store         \* the cluster as that command finds and leaves it: the
                  \* data of the secret and the GitRepository object

credVars == <<cred, store>>

VARIABLES
    base,         \* the manifests directory generate writes into: the
                  \* content of each file, << >> for a file that is not there
    manifests     \* the calls of generate on it: the options, the files of
                  \* the first call that succeeded, the committed files, the
                  \* number of commits and of calls, the last error

genVars == <<base, manifests>>

VARIABLES
    ks,           \* the Kustomization as the API server stores it
    rec,          \* the run of flux reconcile kustomization
    ctl,          \* the controller: what it works on and what it has handled
    clock,        \* the last instant at which a request was stamped
    source        \* the source of the Kustomization as the API server
                  \* stores it

recVars == <<ks, rec, ctl, clock, source>>

VARIABLES
    objs,         \* the suspendable objects of one kind in the cluster
    sus           \* the run of suspendCommand.run

susVars == <<objs, sus>>

VARIABLES
    ver           \* a call of CompatibleVersion: its arguments and result

verVars == <<ver>>

VARIABLES
    env,          \* the objects installed in the cluster
    ins           \* the run of flux install

insVars == <<env, ins>>

VARIABLES
    apiObj,       \* the object the create command applies, as stored
    ups,          \* the run of the create command: upsert, then the wait
    kc            \* the controller of the object's kind

upsVars == <<apiObj, ups, kc>>

VARIABLES
    provider,     \* the SourceBucketProvider flag value
    set           \* the calls of Set on it: the last argument and result

flgVars == <<provider, set>>

VARIABLES
    bgArgs,       \* the flags of flux bootstrap git
    bg            \* the run of bootstrapGitCmdRun: the statement it is at,
                  \* what it has computed and what it has touched

bgVars == <<bgArgs, bg>>

VARIABLES
    inventory,    \* Status.Inventory.Entries of each Kustomization
    tr            \* the call of treeKustomization: call stack, tree, result

treeVars == <<inventory, tr>>

vars == <<gitVars, bootVars, pollVars, credVars, genVars, recVars, susVars, verVars, insVars, upsVars, flgVars, bgVars, treeVars>>

\* what each part of the model leaves alone
exceptGit == <<bootVars, pollVars, credVars, genVars, recVars, susVars, verVars, insVars, upsVars, flgVars, bgVars, treeVars>>
exceptBoot == <<gitVars, pollVars, credVars, genVars, recVars, susVars, verVars, insVars, upsVars, flgVars, bgVars, treeVars>>
exceptPoll == <<gitVars, bootVars, credVars, genVars, recVars, susVars, verVars, insVars, upsVars, flgVars, bgVars, treeVars>>
exceptCred == <<gitVars, bootVars, pollVars, genVars, recVars, susVars, verVars, insVars, upsVars, flgVars, bgVars, treeVars>>
exceptGen == <<gitVars, bootVars, pollVars, credVars, recVars, susVars, verVars, insVars, upsVars, flgVars, bgVars, treeVars>>
exceptRec == <<gitVars, bootVars, pollVars, credVars, genVars, susVars, verVars, insVars, upsVars, flgVars, bgVars, treeVars>>
exceptSus == <<gitVars, bootVars, pollVars, credVars, genVars, recVars, verVars, insVars, upsVars, flgVars, bgVars, treeVars>>
exceptVer == <<gitVars, bootVars, pollVars, credVars, genVars, recVars, susVars, insVars, upsVars, flgVars, bgVars, treeVars>>
exceptIns == <<gitVars, bootVars, pollVars, credVars, genVars, recVars, susVars, verVars, upsVars, flgVars, bgVars, treeVars>>
exceptUps == <<gitVars, bootVars, pollVars, credVars, genVars, recVars, susVars, verVars, insVars, flgVars, bgVars, treeVars>>
exceptFlg == <<gitVars, bootVars, pollVars, credVars, genVars, recVars, susVars, verVars, insVars, upsVars, bgVars, treeVars>>
exceptBg == <<gitVars, bootVars, pollVars, credVars, genVars, recVars, susVars, verVars, insVars, upsVars, flgVars, treeVars>>
exceptTree == <<gitVars, bootVars, pollVars, credVars, genVars, recVars, susVars, verVars, insVars, upsVars, flgVars, bgVars>>

----------------------------------------------------------------------------
(* Bounds and input sets                                                   *)

MaxCommits == 2

\* the paths of the working tree: one that holds a regular file, one that
\* holds a symbolic link
RegularPaths == {"f"}
LinkPaths == {"l"}
Paths == RegularPaths \cup LinkPaths
URLs == {"u1", "u2"}
Branches == {"main", "dev"}

Absent == "absent"
\* what a path of the working tree can be: absent, a regular file with
\* one of two contents, a symbolic link whose target exists or is missing
RegularKinds == {"x", "y"}
FileKinds == {Absent, "x", "y", "lnk_ok", "lnk_broken"}
\* what git stores for a path: nothing, a file blob, or a link blob
Blobs == {Absent, "x", "y", "lnk"}

EmptyTree == [p \in Paths |-> Absent]
NoBranches == [b \in Branches |-> 0]

\* the blob git stores for a file of the working tree: a link is stored as
\* its target path, whether or not the target exists
Blob(kind) == IF kind \in {"lnk_ok", "lnk_broken"} THEN "lnk" ELSE kind

\* Repository.Head(): the commit HEAD resolves to, 0 when the branch is unborn
HeadTree == IF head = 0 THEN EmptyTree ELSE commits[head].tree

\* a is b or an ancestor of b in the object store (0 is the empty history)
RECURSIVE IsAncestor(_, _)
IsAncestor(a, b) ==
    IF a = 0 THEN TRUE
    ELSE IF b = 0 THEN FALSE
    ELSE IF a = b THEN TRUE
    ELSE IsAncestor(a, commits[b].parent)

\* go-git v5.1.0, the version go.mod requires, has go-git issue 253: a link
\* to an absolute path whose target is missing is reported as modified
GoGitIssue253 == TRUE

\* Worktree.Status(): the paths whose HEAD, index and working-tree entries
\* are not all equal; with go-git issue 253 a tracked link whose target is
\* missing is reported modified as well
StatusOf(hd, idx, wt) ==
    {p \in Paths :
        \/ hd[p] # idx[p]
        \/ idx[p] # Blob(wt[p])
        \/ GoGitIssue253 /\ wt[p] = "lnk_broken" /\ idx[p] = "lnk"}

WtStatus == StatusOf(HeadTree, index, worktree)

\* Worktree.Add(file) for each file of a set: the index entry becomes the
\* working-tree blob (removed when the file is gone)
Staged(idx, files) ==
    [p \in Paths |-> IF p \in files THEN Blob(worktree[p]) ELSE idx[p]]

\* the last call of the driver and what it returned, a (bool, error) or a
\* (revision, error) pair; NoResult when the last step was not a call of the
\* driver
Result(op, flag, rev, err) ==
    [op |-> op, flag |-> flag, rev |-> rev, err |-> err]

NoResult == Result("none", FALSE, 0, "nil")

----------------------------------------------------------------------------
(* The driver's operations                                                 *)

\* what Init answers: nil, or on a driver not yet open the error of
\* PlainInit, CreateRemote, CreateBranch or SetReference
InitOutcomes == IF repository # "nil" THEN {"nil"} ELSE {"nil", "ErrInit"}

\* an Init that sets the repository up again when one is open
InitRepositoryAgain(url, branch, out) ==
    IF out # "nil"
    THEN UNCHANGED <<repository, origin, headRef, head, index, worktree,
                     commits, remote>>
    ELSE /\ repository' = "open"
         /\ origin' = url
         /\ headRef' = branch
         /\ head' = 0
         /\ index' = EmptyTree
         /\ UNCHANGED <<worktree, commits, remote>>

\* GoGit.Init(url, branch), its effect on the driver: a call on an open
\* driver changes nothing; otherwise PlainInit, CreateRemote(origin, url),
\* CreateBranch(branch) and HEAD set to a symbolic reference to the (unborn)
\* branch; g.repository is assigned after the last of them, so a call that
\* returns an error leaves the driver without a repository
InitRepository(url, branch, out) ==
    IF repository # "nil" \/ out # "nil"
    THEN UNCHANGED <<repository, origin, headRef, head, index, worktree,
                     commits, remote>>
    ELSE /\ repository' = "open"
         /\ origin' = url
         /\ headRef' = branch
         /\ head' = 0
         /\ index' = EmptyTree
         /\ UNCHANGED <<worktree, commits, remote>>

\* GoGit.Init(url, branch) as a call: (true, nil) when it opened the
\* repository, (false, nil) when one was open already, (false, err) when
\* it failed
GoGitInit(url, branch) ==
    \E out \in InitOutcomes :
        /\ InitRepository(url, branch, out)
        /\ ret' = Result("Init", repository = "nil" /\ out = "nil", 0, out)

\* what PlainCloneContext(url, branch) answers: the working directory already
\* holds a repository, the transport fails, the remote has no reference at
\* all, the remote has no such branch, or the clone succeeds
CloneOutcomes(url, branch) ==
    IF repository # "nil" THEN {"ErrRepositoryAlreadyExists"}
    ELSE {"ErrAuth", "ErrNetwork"} \cup
         (IF remote[url] = NoBranches THEN {"ErrEmptyRemoteRepository"}
          ELSE IF remote[url][branch] = 0 THEN {"ErrRemoteRefNotFound"}
          ELSE {"nil"})

\* the files a checkout of a tree leaves in the working directory; whether
\* the target of a checked-out link exists is the file system's matter
Checkout(tree, broken) ==
    [p \in Paths |-> IF tree[p] = "lnk"
                     THEN (IF broken THEN "lnk_broken" ELSE "lnk_ok")
                     ELSE tree[p]]

\* a fallback that forgets the missing-branch case
IsInitFallbackEmptyOnly(err) == err = "ErrEmptyRemoteRepository"

\* the errors on which Clone falls back to Init
IsInitFallback(err) ==
    err \in {"ErrEmptyRemoteRepository", "ErrRemoteRefNotFound"}

\* GoGit.Clone(ctx, url, branch)
GoGitClone(url, branch) ==
    \E out \in CloneOutcomes(url, branch) :
        IF out = "nil"
        THEN \E broken \in BOOLEAN :
             /\ repository' = "open"
             /\ origin' = url
             /\ headRef' = branch
             /\ head' = remote[url][branch]
             /\ index' = commits[remote[url][branch]].tree
             /\ worktree' = Checkout(commits[remote[url][branch]].tree, broken)
             /\ ret' = Result("Clone", TRUE, 0, "nil")
             /\ UNCHANGED <<commits, remote>>
        ELSE IF IsInitFallback(out)
        THEN \* return g.Init(url, branch)
             \E init \in InitOutcomes :
                /\ InitRepository(url, branch, init)
                /\ ret' = Result("Clone", repository = "nil" /\ init = "nil",
                                 0, init)
        ELSE /\ ret' = Result("Clone", FALSE, 0, out)
             /\ UNCHANGED <<repository, origin, headRef, head, index,
                            worktree, commits, remote>>

\* GoGit.Write(path, reader): Filesystem.Create opens the path with
\* O_CREATE|O_TRUNC, which follows a symbolic link and creates its target
GoGitWrite(path, content) ==
    IF repository = "nil"
    THEN /\ ret' = Result("Write", FALSE, 0, "ErrNoGitRepository")
         /\ UNCHANGED <<repository, origin, headRef, head, index, worktree,
                        commits, remote>>
    ELSE /\ worktree' = [worktree EXCEPT ![path] =
                            IF @ \in {"lnk_ok", "lnk_broken"} THEN "lnk_ok"
                            ELSE content]
         /\ ret' = Result("Write", FALSE, 0, "nil")
         /\ UNCHANGED <<repository, origin, headRef, head, index, commits,
                        remote>>

\* the paths of the status for which os.Lstat fails: the file is gone
LstatFails(status) == {p \in status : worktree[p] = Absent}

\* the paths of the status Commit skips: links whose target is missing
\* (Lstat says symlink, Stat says not exist)
BrokenLinks(status) == {p \in status : worktree[p] = "lnk_broken"}

\* the paths of the status Commit passes to Worktree.Add
ToAdd(status) == status \ (LstatFails(status) \cup BrokenLinks(status))

\* GoGit.Commit(message). The status is a Go map: the loop visits its paths
\* in any order, so when Lstat fails on one of them any subset of the others
\* has been added to the index before the error return.
GoGitCommit ==
    IF repository = "nil"
    THEN /\ ret' = Result("Commit", FALSE, 0, "ErrNoGitRepository")
         /\ UNCHANGED <<repository, origin, headRef, head, index, worktree,
                        commits, remote>>
    ELSE IF LstatFails(WtStatus) # {}
    THEN \E done \in SUBSET ToAdd(WtStatus) :
         /\ index' = Staged(index, done)
         /\ ret' = Result("Commit", FALSE, 0, "ErrLstat")
         /\ UNCHANGED <<repository, origin, headRef, head, worktree,
                        commits, remote>>
    ELSE IF ToAdd(WtStatus) = {}
    THEN \* nothing changed: the answer is Repository.Head()
         /\ ret' = IF head = 0
                   THEN Result("Commit", FALSE, 0, "ErrReferenceNotFound")
                   ELSE Result("Commit", FALSE, head, "ErrNoStagedFiles")
         /\ UNCHANGED <<repository, origin, headRef, head, index, worktree,
                        commits, remote>>
    ELSE \* Worktree.Commit: a commit of the index on top of HEAD
         /\ Len(commits) < MaxCommits
         /\ index' = Staged(index, ToAdd(WtStatus))
         /\ commits' = Append(commits, [parent |-> head, tree |-> index'])
         /\ head' = Len(commits) + 1
         /\ ret' = Result("Commit", FALSE, Len(commits) + 1, "nil")
         /\ UNCHANGED <<repository, origin, headRef, worktree, remote>>

\* a push that forces the update: a remote branch that is not an ancestor of
\* the local one is overwritten
PushOutcomesForced ==
    {"ErrAuth", "ErrNetwork"} \cup
         (IF head = 0 \/ remote[origin][headRef] = head
          THEN {"ErrAlreadyUpToDate"}
          ELSE {"nil"})

\* what Repository.PushContext answers with the default refspec
\* refs/heads/*:refs/heads/* and no force: it fails on the transport, has
\* nothing to send, is rejected because the remote branch is not an ancestor
\* of the local one, or updates the remote branch
PushOutcomes ==
    {"ErrAuth", "ErrNetwork"} \cup
         (IF head = 0 \/ remote[origin][headRef] = head
          THEN {"ErrAlreadyUpToDate"}
          ELSE IF ~IsAncestor(remote[origin][headRef], head)
          THEN {"ErrNonFastForward"}
          ELSE {"nil"})

\* GoGit.Push(ctx): one PushContext call, its error returned as it is
GoGitPush ==
    IF repository = "nil"
    THEN /\ ret' = Result("Push", FALSE, 0, "ErrNoGitRepository")
         /\ UNCHANGED <<repository, origin, headRef, head, index, worktree,
                        commits, remote>>
    ELSE \E out \in PushOutcomes :
         /\ remote' = IF out = "nil"
                      THEN [remote EXCEPT ![origin][headRef] = head]
                      ELSE remote
         /\ ret' = Result("Push", FALSE, 0, out)
         /\ UNCHANGED <<repository, origin, headRef, head, index, worktree,
                        commits>>

\* a Status that does not look at g.repository
GoGitStatusUnchecked ==
    /\ ret' = Result("Status", WtStatus = {}, 0, "nil")
    /\ UNCHANGED <<repository, origin, headRef, head, index, worktree,
                   commits, remote>>

\* GoGit.Status(): Worktree.Status().IsClean()
GoGitStatus ==
    /\ ret' = IF repository = "nil"
              THEN Result("Status", FALSE, 0, "ErrNoGitRepository")
              ELSE Result("Status", WtStatus = {}, 0, "nil")
    /\ UNCHANGED <<repository, origin, headRef, head, index, worktree,
                   commits, remote>>

\* GoGit.Head()
GoGitHead ==
    /\ ret' = IF repository = "nil"
              THEN Result("Head", FALSE, 0, "ErrNoGitRepository")
              ELSE IF head = 0
              THEN Result("Head", FALSE, 0, "ErrReferenceNotFound")
              ELSE Result("Head", FALSE, head, "nil")
    /\ UNCHANGED <<repository, origin, headRef, head, index, worktree,
                   commits, remote>>

----------------------------------------------------------------------------
(* The driver's surroundings                                               *)

\* the branches another client pushes to, and the trees it pushes
OtherURLs == {"u1"}
OtherBranches == {"main"}
OtherTrees == {[p \in Paths |-> IF p \in RegularPaths THEN "x" ELSE "lnk"]}

\* the working directory changes under the driver: a file is removed, a
\* link is made, the target of a link appears or disappears
FileSystemChange(path, kind) ==
    /\ repository = "open"
    /\ kind \in (IF path \in LinkPaths THEN {Absent, "lnk_ok", "lnk_broken"}
                 ELSE {Absent})
    /\ worktree[path] # kind
    /\ worktree' = [worktree EXCEPT ![path] = kind]
    /\ ret' = NoResult
    /\ UNCHANGED <<repository, origin, headRef, head, index, commits,
                   remote>>

\* another client pushes a commit to a branch of a hosted repository
OtherPush(url, branch, tree) ==
    /\ Len(commits) < MaxCommits
    /\ commits' = Append(commits, [parent |-> remote[url][branch],
                                   tree |-> tree])
    /\ remote' = [remote EXCEPT ![url][branch] = Len(commits) + 1]
    /\ ret' = NoResult
    /\ UNCHANGED <<repository, origin, headRef, head, index, worktree>>

----------------------------------------------------------------------------
(* The driver's properties                                                 *)

\* the paths in which the working tree is not the tree of HEAD
DiffersFromHead == {p \in Paths : Blob(worktree[p]) # HeadTree[p]}

\* the same, links whose target is missing left aside
ChangedPaths == {p \in DiffersFromHead : worktree[p] # "lnk_broken"}

\* nothing but links whose target is missing sets the working tree apart
\* from HEAD
OnlyBrokenLinksDiffer ==
    /\ index = HeadTree
    /\ WtStatus # {}
    /\ \A p \in WtStatus : worktree[p] = "lnk_broken"

\* C1: on an open repository a Commit call adds a commit if and only if the
\* working tree differs from HEAD (links whose target is missing are not
\* staged and do not count); a call on a tree equal to HEAD adds none.
C1_CommitIffTreeDiffers ==
    [][(GoGitCommit /\ repository = "open")
         => ((Len(commits') = Len(commits) + 1) <=> (ChangedPaths # {}))]_gitVars

\* C2: on an open repository, with or without a commit, a Commit call that
\* finds nothing to stage returns ErrNoStagedFiles with the HEAD revision and
\* leaves HEAD as it is.
C2_NoChangesReturnsHead ==
    [][(/\ GoGitCommit
        /\ repository = "open"
        /\ LstatFails(WtStatus) = {}
        /\ ToAdd(WtStatus) = {})
         => (/\ ret'.err = "ErrNoStagedFiles"
             /\ ret'.rev = head
             /\ head' = head
             /\ commits' = commits)]_gitVars

\* C3: when the working tree differs from HEAD (a file added, modified or
\* deleted), Commit returns without error a new revision whose parent is the
\* prior HEAD, and that revision is the new HEAD.
C3_ChangedTreeCommits ==
    [][(GoGitCommit /\ repository = "open" /\ ChangedPaths # {})
         => (/\ ret'.err = "nil"
             /\ ret'.rev = Len(commits) + 1
             /\ head' = ret'.rev
             /\ commits' = Append(commits, [parent |-> head, tree |-> index'])
             /\ \A p \in Paths : index'[p] # HeadTree[p] <=> p \in ChangedPaths)
       ]_gitVars

\* C4: when HEAD is a commit and only a link whose target is missing sets the
\* working tree apart from it, Status reports clean, and Commit returns the
\* no-changes signal and adds no commit.
C4_BrokenLinkIsClean ==
    [][(repository = "open" /\ head # 0 /\ OnlyBrokenLinksDiffer)
         => (/\ GoGitStatus => (ret'.err = "nil" /\ ret'.flag)
             /\ GoGitCommit => (/\ ret'.err = "ErrNoStagedFiles"
                                /\ commits' = commits
                                /\ head' = head))]_gitVars

\* C5: a Clone(url, branch) of a driver not yet open whose transport works
\* and whose working directory can be initialised, against a remote with no reference at all or without the branch, returns
\* no error and leaves the driver open on a repository without commits whose
\* HEAD points to the branch and whose origin is the url.
C5_CloneFallsBackToInit ==
    [][\A u \in URLs, b \in Branches :
        (/\ GoGitClone(u, b)
         /\ repository = "nil"
         /\ remote[u][b] = 0
         /\ ret'.err \notin {"ErrAuth", "ErrNetwork", "ErrInit"})
          => (/\ ret'.err = "nil"
              /\ ret'.flag
              /\ repository' = "open"
              /\ origin' = u
              /\ headRef' = b
              /\ head' = 0
              /\ index' = EmptyTree
              /\ remote' = remote)]_gitVars

\* a Clone has just fallen back to Init on a remote that has branches but
\* not the one asked for
C5_Witness ==
    /\ ret = Result("Clone", TRUE, 0, "nil")
    /\ repository = "open"
    /\ head = 0
    /\ remote[origin] # NoBranches
    /\ remote[origin][headRef] = 0

\* a call of Init or Clone, and a call of one of the other operations
OpensRepository == \E u \in URLs, b \in Branches :
                       GoGitInit(u, b) \/ GoGitClone(u, b)
NeedsRepository ==
    \/ \E p \in Paths, c \in RegularKinds : GoGitWrite(p, c)
    \/ GoGitCommit
    \/ GoGitPush
    \/ GoGitStatus
    \/ GoGitHead

\* C35: the driver has a repository exactly from the first call of Init or
\* Clone that returns no error: no other step sets it, none unsets it,
\* and a call of Init or Clone that returns an error leaves it as it was;
\* Write, Commit, Push, Status and Head return ErrNoGitRepository if and
\* only if the driver has no repository, and then change nothing.
C35_RepositorySetByInitOrClone ==
    [][/\ repository' # repository =>
             /\ repository = "nil" /\ repository' = "open"
             /\ OpensRepository /\ ret'.err = "nil"
       /\ OpensRepository =>
             /\ ret'.err = "nil" => repository' = "open"
             /\ ret'.err # "nil" => repository' = repository
       /\ NeedsRepository =>
             /\ ret'.err = "ErrNoGitRepository" <=> repository = "nil"
             /\ repository = "nil" =>
                   UNCHANGED <<repository, origin, headRef, head, index,
                               worktree, commits, remote>>
      ]_gitVars

\* a call on a driver without a repository, after a Clone could have
\* succeeded
C35_Witness ==
    /\ repository = "nil"
    /\ ret = Result("Push", FALSE, 0, "ErrNoGitRepository")
    /\ \E u \in URLs, b \in Branches : remote[u][b] # 0

\* C36: a call of Init on a driver that has a repository returns
\* (false, nil) and leaves the repository, its origin, HEAD, index and
\* commits, the working tree and the remotes as they were, whatever url
\* and branch it is given.
C36_InitOnOpenChangesNothing ==
    [][\A u \in URLs, b \in Branches :
          GoGitInit(u, b) /\ repository = "open" =>
              /\ ret' = Result("Init", FALSE, 0, "nil")
              /\ UNCHANGED <<repository, origin, headRef, head, index,
                             worktree, commits, remote>>]_gitVars

\* an Init has just been called on a clone with a commit and files
C36_Witness ==
    /\ ret = Result("Init", FALSE, 0, "nil")
    /\ repository = "open"
    /\ head # 0
    /\ worktree # EmptyTree

\* C6: a Push call is one attempt without force: it either fails and leaves
\* every remote branch as it was, or moves the remote branch forward to the
\* local head; a remote head that is not an ancestor of the local head, or a
\* failing transport, gives an error and an unchanged remote.
C6_PushNeverForces ==
    [][(GoGitPush /\ repository = "open")
         => (/\ ret'.err # "nil" => remote' = remote
             /\ ret'.err = "nil" =>
                  /\ IsAncestor(remote[origin][headRef], head)
                  /\ remote' = [remote EXCEPT ![origin][headRef] = head]
             /\ ~IsAncestor(remote[origin][headRef], head) =>
                  /\ ret'.err # "nil"
                  /\ head # 0 => ret'.err \in {"ErrNonFastForward", "ErrAuth",
                                               "ErrNetwork"})
       ]_gitVars

\* a Push has just been rejected because the remote branch moved on after
\* the clone
C6_Witness ==
    /\ ret = Result("Push", FALSE, 0, "ErrNonFastForward")
    /\ head # 0
    /\ remote[origin][headRef] # head
    /\ IsAncestor(head, remote[origin][headRef])

----------------------------------------------------------------------------
(* The GitLab bootstrap run: cmd/flux/bootstrap_gitlab.go                  *)
(* Two invocations of the command run against the same project, branch,   *)
(* path and cluster, one after the other or interleaved.                   *)

Runs == {"r1", "r2"}
Tokens == {"", "t1", "t2"}
Params == [token : Tokens, ssh : BOOLEAN, valid : BOOLEAN]

NoSecret == [identity |-> "", password |-> ""]
NoManifests == [components |-> FALSE, sync |-> ""]
NoClone == [base |-> 0, tree |-> NoManifests, files |-> NoManifests]

Other(r) == CHOOSE o \in Runs : o # r

\* a return that leaves the working directory behind
ReturnLeavingDir(r, state, err) ==
    /\ pc' = [pc EXCEPT ![r] = state]
    /\ cause' = [cause EXCEPT ![r] = err]
    /\ UNCHANGED tmpDir

\* the deferred os.RemoveAll(tmpDir) runs on every return after TempDir
Return(r, state, err) ==
    /\ pc' = [pc EXCEPT ![r] = state]
    /\ cause' = [cause EXCEPT ![r] = err]
    /\ tmpDir' = [tmpDir EXCEPT ![r] = FALSE]

\* a return of the error that reports the run as finished
FailAsFinished(r, err) == Return(r, "done", err)

\* return err
Fail(r, err) == Return(r, "failed", err)

Goto(r, state) ==
    /\ pc' = [pc EXCEPT ![r] = state]
    /\ UNCHANGED <<cause, tmpDir>>

\* the command is invoked
Start(r, p) ==
    /\ pc[r] = "idle"
    /\ par' = [par EXCEPT ![r] = p]
    /\ succ' = [succ EXCEPT ![r] = pc[Other(r)] = "done" /\ par[Other(r)] = p]
    /\ Goto(r, "CheckToken")
    /\ UNCHANGED <<clone, made, pushed, install, hosted, cluster>>

\* glToken := os.Getenv(GitLabTokenName); empty: return an error
CheckToken(r) ==
    /\ pc[r] = "CheckToken"
    /\ IF par[r].token = "" THEN Fail(r, "ErrNoToken") ELSE Goto(r, "Validate")
    /\ UNCHANGED <<par, clone, made, pushed, install, succ, hosted, cluster>>

\* the validation, were its error not returned
ValidateIgnored(r) ==
    /\ pc[r] = "Validate"
    /\ Goto(r, "KubeClient")
    /\ UNCHANGED <<par, clone, made, pushed, install, succ, hosted, cluster>>

\* bootstrapValidate()
Validate(r) ==
    /\ pc[r] = "Validate"
    /\ IF par[r].valid THEN Goto(r, "KubeClient") ELSE Fail(r, "ErrValidate")
    /\ UNCHANGED <<par, clone, made, pushed, install, succ, hosted, cluster>>

\* utils.KubeClient(kubeconfig)
KubeClient(r) ==
    /\ pc[r] = "KubeClient"
    /\ \/ Goto(r, "TempDir")
       \/ Fail(r, "ErrKubeClient")
    /\ UNCHANGED <<par, clone, made, pushed, install, succ, hosted, cluster>>

\* ioutil.TempDir and defer os.RemoveAll(tmpDir)
TempDir(r) ==
    /\ pc[r] = "TempDir"
    /\ \/ /\ pc' = [pc EXCEPT ![r] = "CreateRepository"]
          /\ tmpDir' = [tmpDir EXCEPT ![r] = TRUE]
          /\ UNCHANGED cause
       \/ Fail(r, "ErrTempDir")
    /\ UNCHANGED <<par, clone, made, pushed, install, succ, hosted, cluster>>

\* provider.CreateRepository: the project is created, with a first commit
\* on the branch, when it does not exist
CreateRepository(r) ==
    /\ pc[r] = "CreateRepository"
    /\ \/ /\ hosted' = IF hosted.head = 0
                       THEN [head |-> 1, tree |-> NoManifests]
                       ELSE hosted
          /\ Goto(r, "Checkout")
       \/ /\ Fail(r, "ErrCreateRepository")
          /\ UNCHANGED hosted
    /\ UNCHANGED <<par, clone, made, pushed, install, succ, cluster>>

\* a checkout after which only a repository without manifests is worked on
CheckoutBranchNewOnly(r) ==
    /\ pc[r] = "Checkout"
    /\ \/ /\ hosted.head # 0
          /\ clone' = [clone EXCEPT ![r] = [base |-> hosted.head,
                                            tree |-> hosted.tree,
                                            files |-> hosted.tree]]
          /\ IF hosted.tree.components
             THEN Return(r, "done", "nil")
             ELSE Goto(r, "GenerateInstall")
       \/ /\ Fail(r, "ErrCheckout")
          /\ UNCHANGED clone
    /\ UNCHANGED <<par, made, pushed, install, succ, hosted, cluster>>

\* repository.Checkout(ctx, bootstrapBranch, tmpDir): a clone of the branch
CheckoutBranch(r) ==
    /\ pc[r] = "Checkout"
    /\ \/ /\ hosted.head # 0
          /\ clone' = [clone EXCEPT ![r] = [base |-> hosted.head,
                                            tree |-> hosted.tree,
                                            files |-> hosted.tree]]
          /\ Goto(r, "GenerateInstall")
       \/ /\ Fail(r, "ErrCheckout")
          /\ UNCHANGED clone
    /\ UNCHANGED <<par, made, pushed, install, succ, hosted, cluster>>

\* generateInstallManifests writes the components manifest under the path
GenerateInstall(r) ==
    /\ pc[r] = "GenerateInstall"
    /\ \/ /\ clone' = [clone EXCEPT ![r].files.components = TRUE]
          /\ Goto(r, "CommitInstall")
       \/ /\ Fail(r, "ErrGenerateInstall")
          /\ UNCHANGED clone
    /\ UNCHANGED <<par, made, pushed, install, succ, hosted, cluster>>

\* repository.Commit(ctx, path, message): (changed, err); a commit is made
\* when the files under the path differ from the committed tree
RepositoryCommit(r, ifChanged, otherwise) ==
    \/ /\ clone[r].files # clone[r].tree
       /\ clone' = [clone EXCEPT ![r].tree = clone[r].files]
       /\ made' = [made EXCEPT ![r] = @ + 1]
       /\ Goto(r, ifChanged)
    \/ /\ clone[r].files = clone[r].tree
       /\ UNCHANGED <<clone, made>>
       /\ Goto(r, otherwise)
    \/ /\ Fail(r, "ErrCommit")
       /\ UNCHANGED <<clone, made>>

\* repository.Push(ctx): rejected when the branch moved on since the clone
RepositoryPush(r, next) ==
    /\ pushed' = [pushed EXCEPT ![r] = @ + 1]
    /\ \/ /\ hosted.head = clone[r].base
          /\ hosted' = [head |-> hosted.head + 1, tree |-> clone[r].tree]
          /\ clone' = [clone EXCEPT ![r].base = hosted.head + 1]
          /\ Goto(r, next)
       \/ /\ hosted.head # clone[r].base
          /\ Fail(r, "ErrNonFastForward")
          /\ UNCHANGED <<hosted, clone>>
       \/ /\ Fail(r, "ErrPush")
          /\ UNCHANGED <<hosted, clone>>

\* the commit step, were the push not conditional on changed
CommitInstallAlwaysPush(r) ==
    /\ pc[r] = "CommitInstall"
    /\ RepositoryCommit(r, "PushInstall", "PushInstall")
    /\ UNCHANGED <<par, pushed, install, succ, hosted, cluster>>

\* stage install manifests; push them if changed
CommitInstall(r) ==
    /\ pc[r] = "CommitInstall"
    /\ RepositoryCommit(r, "PushInstall", "ShouldInstall")
    /\ UNCHANGED <<par, pushed, install, succ, hosted, cluster>>

PushInstall(r) ==
    /\ pc[r] = "PushInstall"
    /\ RepositoryPush(r, "ShouldInstall")
    /\ UNCHANGED <<par, made, install, succ, cluster>>

\* shouldInstallManifests: "determine if repo synchronization is working"
ShouldInstallManifests == ~cluster.reconciled

\* isInstall := shouldInstallManifests(...); if isInstall { apply }
ShouldInstall(r) ==
    /\ pc[r] = "ShouldInstall"
    /\ IF ShouldInstallManifests
       THEN /\ Goto(r, "ApplyInstall")
            /\ UNCHANGED install
       ELSE /\ Goto(r, "Credentials")
            /\ install' = [install EXCEPT ![r] = "skipped"]
    /\ UNCHANGED <<par, clone, made, pushed, succ, hosted, cluster>>

\* applyInstallManifests: apply the components and wait until they are
\* ready; when it fails some of them may still come up
ApplyInstallManifests(ok) ==
    IF ok
    THEN cluster' = [cluster EXCEPT !.components = TRUE]
    ELSE \E done \in BOOLEAN :
            cluster' = [cluster EXCEPT !.components = @ \/ done]

\* the apply step, were the error of applyInstallManifests not returned
ApplyInstallIgnoringError(r) ==
    /\ pc[r] = "ApplyInstall"
    /\ \E ok \in BOOLEAN :
          /\ ApplyInstallManifests(ok)
          /\ install' = [install EXCEPT ![r] = IF ok THEN "ready" ELSE "failed"]
          /\ Goto(r, "Credentials")
    /\ UNCHANGED <<par, clone, made, pushed, succ, hosted>>

\* if err := applyInstallManifests(...); err != nil { return err }
ApplyInstall(r) ==
    /\ pc[r] = "ApplyInstall"
    /\ \E ok \in BOOLEAN :
          /\ ApplyInstallManifests(ok)
          /\ install' = [install EXCEPT ![r] = IF ok THEN "ready" ELSE "failed"]
          /\ IF ok THEN Goto(r, "Credentials") ELSE Fail(r, "ErrInstall")
    /\ UNCHANGED <<par, clone, made, pushed, succ, hosted>>

\* shouldCreateDeployKey: no secret of that name exists yet
ShouldCreateDeployKey == cluster.secret = NoSecret

\* upsertSecret: the secret is created, or its data set in the existing one
UpsertSecret(data) ==
    [identity |-> IF data.identity # "" THEN data.identity
                  ELSE cluster.secret.identity,
     password |-> IF data.password # "" THEN data.password
                  ELSE cluster.secret.password]

\* the credential step: with --ssh-hostname a deploy key, generated when
\* shouldCreateDeployKey says so; otherwise the token, upserted
Credentials(r) ==
    /\ pc[r] = "Credentials"
    /\ IF par[r].ssh
       THEN /\ IF ShouldCreateDeployKey
               THEN Goto(r, "GenerateDeployKey")
               ELSE Goto(r, "GenerateSync")
            /\ UNCHANGED cluster
       ELSE \/ /\ cluster' = [cluster EXCEPT !.secret =
                     UpsertSecret([identity |-> "",
                                   password |-> par[r].token])]
               /\ Goto(r, "GenerateSync")
            \/ /\ Fail(r, "ErrUpsertSecret")
               /\ UNCHANGED cluster
    /\ UNCHANGED <<par, clone, made, pushed, install, succ, hosted>>

\* generateDeployKey: a new key pair and the host key, stored in the secret
GenerateDeployKey(r) ==
    /\ pc[r] = "GenerateDeployKey"
    /\ \/ /\ cluster' = [cluster EXCEPT !.secret =
                UpsertSecret([identity |-> r, password |-> ""])]
          /\ Goto(r, "AddDeployKey")
       \/ /\ Fail(r, "ErrGenerateDeployKey")
          /\ UNCHANGED cluster
    /\ UNCHANGED <<par, clone, made, pushed, install, succ, hosted>>

\* provider.AddDeployKey
AddDeployKey(r) ==
    /\ pc[r] = "AddDeployKey"
    /\ \/ Goto(r, "GenerateSync")
       \/ Fail(r, "ErrAddDeployKey")
    /\ UNCHANGED <<par, clone, made, pushed, install, succ, hosted, cluster>>

\* the URL the sync manifests point to
RepoURL(r) == IF par[r].ssh THEN "ssh" ELSE "https"

\* generateSyncManifests writes the source and kustomization manifests
GenerateSync(r) ==
    /\ pc[r] = "GenerateSync"
    /\ \/ /\ clone' = [clone EXCEPT ![r].files.sync = RepoURL(r)]
          /\ Goto(r, "CommitSync")
       \/ /\ Fail(r, "ErrGenerateSync")
          /\ UNCHANGED clone
    /\ UNCHANGED <<par, made, pushed, install, succ, hosted, cluster>>

\* the commit step, were "no changes" an error of the run
CommitSyncNoChangesFails(r) ==
    /\ pc[r] = "CommitSync"
    /\ RepositoryCommit(r, "PushSync", "failed")
    /\ UNCHANGED <<par, pushed, install, succ, hosted, cluster>>

\* commit and push manifests
CommitSync(r) ==
    /\ pc[r] = "CommitSync"
    /\ RepositoryCommit(r, "PushSync", "ApplySync")
    /\ UNCHANGED <<par, pushed, install, succ, hosted, cluster>>

PushSync(r) ==
    /\ pc[r] = "PushSync"
    /\ RepositoryPush(r, "ApplySync")
    /\ UNCHANGED <<par, made, install, succ, cluster>>

\* applySyncManifests: the sync objects are applied ...
ApplySync(r) ==
    /\ pc[r] = "ApplySync"
    /\ \/ /\ cluster' = [cluster EXCEPT !.sync = clone[r].files.sync]
          /\ Goto(r, "WaitSync")
       \/ /\ Fail(r, "ErrApplySync")
          /\ UNCHANGED cluster
    /\ UNCHANGED <<par, clone, made, pushed, install, succ, hosted>>

\* ... and the run waits until they are reconciled, or gives up
WaitSync(r) ==
    /\ pc[r] = "WaitSync"
    /\ \/ /\ cluster.reconciled
          /\ Return(r, "done", "nil")
       \/ Fail(r, "ErrWaitSync")
    /\ UNCHANGED <<par, clone, made, pushed, install, succ, hosted, cluster>>

\* the controllers in the cluster reconcile the sync objects
Reconcile ==
    /\ cluster.components
    /\ cluster.sync # ""
    /\ ~cluster.reconciled
    /\ cluster' = [cluster EXCEPT !.reconciled = TRUE]
    /\ UNCHANGED <<pc, par, tmpDir, clone, made, pushed, install, cause,
                   succ, hosted>>

----------------------------------------------------------------------------
(* The readiness poll: wait.PollImmediate(pollInterval, timeout, isXReady)  *)
(* as called by the create and reconcile commands                          *)

MaxTimeout == 3

Kinds == {"Kustomization", "Bucket", "Receiver", "GitRepository"}
Statuses == {"absent", "Unknown", "True", "False"}
Chars == {"a", "d", "%"}

\* condition messages: plain text, text with a verb, an escaped and a
\* trailing percent sign
Messages == {<<"a">>, <<"a", "%", "d">>, <<"%", "%">>, <<"d", "%">>}

\* the objects: a condition that is absent has no message
Targets ==
    {t \in [kind : Kinds, status : Statuses, message : Messages \cup {<< >>},
            current : BOOLEAN] :
        (t.status = "absent") = (t.message = << >>)}

NoError == [id |-> "nil", text |-> << >>]
ErrGet == [id |-> "ErrGet", text |-> <<"get failed">>]
ErrWaitTimeout == [id |-> "ErrWaitTimeout",
                   text |-> <<"timed out waiting for the condition">>]

\* what fmt prints for a verb that has no operand
Missing(verb) == IF verb = "d" THEN "%!d(MISSING)" ELSE "%!a(MISSING)"

\* fmt.Sprintf(format) without operands
RECURSIVE Sprintf(_)
Sprintf(format) ==
    IF format = << >> THEN << >>
    ELSE IF Head(format) # "%" THEN <<Head(format)>> \o Sprintf(Tail(format))
    ELSE IF Len(format) = 1 THEN <<"%!(NOVERB)">>
    ELSE IF format[2] = "%" THEN <<"%">> \o Sprintf(Tail(Tail(format)))
    ELSE <<Missing(format[2])>> \o Sprintf(Tail(Tail(format)))

\* fmt.Errorf(c.Message)
Errorf(format) == [id |-> "errorString", text |-> Sprintf(format)]

Observation(done, err) == [done |-> done, err |-> err]
KeepPolling == Observation(FALSE, NoError)

\* the switch on the status of the Ready condition
ReadyCondition(obj) ==
    IF obj.status = "True" THEN Observation(TRUE, NoError)
    ELSE IF obj.status = "False" THEN Observation(FALSE, Errorf(obj.message))
    ELSE KeepPolling

\* the readiness function, were the generation not looked at
isKustomizationReadyAnyGeneration(obj) == ReadyCondition(obj)

isKustomizationReady(obj) ==
    IF ~obj.current THEN KeepPolling ELSE ReadyCondition(obj)

isBucketReady(obj) ==
    IF ~obj.current THEN KeepPolling ELSE ReadyCondition(obj)

isReceiverReady(obj) == ReadyCondition(obj)

isGitRepositoryReady(obj) == ReadyCondition(obj)

\* one call of the condition function: kubeClient.Get, then the mapping
ConditionFunc(obj, getOK) ==
    IF ~getOK THEN Observation(FALSE, ErrGet)
    ELSE IF obj.kind = "Kustomization" THEN isKustomizationReady(obj)
    ELSE IF obj.kind = "Bucket" THEN isBucketReady(obj)
    ELSE IF obj.kind = "Receiver" THEN isReceiverReady(obj)
    ELSE isGitRepositoryReady(obj)

Returned(res, err) ==
    [poll EXCEPT !.pc = "returned", !.last = res, !.err = err]

\* the poll after an observation, were the closing of the tick channel
\* not looked at
AfterObservationNoTimeout(res) ==
    IF res.err # NoError THEN Returned(res, res.err)
    ELSE IF res.done THEN Returned(res, NoError)
    ELSE [poll EXCEPT !.pc = "polling", !.last = res, !.seen = poll.now]

\* the poll after an observation, were a failed read of the object taken
\* for an object that is not ready yet
AfterObservationGetErrorAsUnknown(res) ==
    IF res.err # NoError /\ res.err # ErrGet THEN Returned(res, res.err)
    ELSE IF res.done THEN Returned(res, NoError)
    ELSE IF poll.pc = "polling" /\ poll.now = poll.timeout
         THEN Returned(res, ErrWaitTimeout)
    ELSE [poll EXCEPT !.pc = "polling", !.last = res, !.seen = poll.now]

\* wait.WaitFor: an error ends the poll with it, done ends it with nil,
\* and after the timeout the tick channel is closed and the poll ends
\* with ErrWaitTimeout
AfterObservation(res) ==
    IF res.err # NoError THEN Returned(res, res.err)
    ELSE IF res.done THEN Returned(res, NoError)
    ELSE IF poll.pc = "polling" /\ poll.now = poll.timeout
         THEN Returned(res, ErrWaitTimeout)
    ELSE [poll EXCEPT !.pc = "polling", !.last = res, !.seen = poll.now]

\* the condition function is called at once and then on every tick that
\* finds the poll waiting, the last time when the timeout has passed
Observe(getOK) ==
    /\ \/ poll.pc = "immediate"
       \/ poll.pc = "polling" /\ poll.now > poll.seen
    /\ poll' = AfterObservation(ConditionFunc(target, getOK))
    /\ UNCHANGED target

\* a poll interval passes; the ticker starts after the first observation
Tick ==
    /\ poll.pc = "polling"
    /\ poll.now < poll.timeout
    /\ poll' = [poll EXCEPT !.now = @ + 1]
    /\ UNCHANGED target

\* the controllers of the cluster update the status of the object
Reconciled(t) ==
    /\ poll.pc # "returned"
    /\ t.kind = target.kind
    /\ t # target
    /\ target' = t
    /\ UNCHANGED poll

\* the command has applied the object and starts to wait
PollInit ==
    /\ target \in Targets
    /\ \E t \in 1..MaxTimeout :
          poll = [pc |-> "immediate", timeout |-> t, now |-> 0, seen |-> 0,
                  last |-> KeepPolling, err |-> NoError]

\* no poll in sight
PollIdle ==
    /\ target = [kind |-> "Kustomization", status |-> "absent",
                 message |-> << >>, current |-> FALSE]
    /\ poll = [pc |-> "returned", timeout |-> 1, now |-> 0, seen |-> 0,
               last |-> KeepPolling, err |-> NoError]

PollNext ==
    \/ \E getOK \in BOOLEAN : Observe(getOK) /\ UNCHANGED exceptPoll
    \/ Tick /\ UNCHANGED exceptPoll
    \/ \E t \in Targets : Reconciled(t) /\ UNCHANGED exceptPoll

----------------------------------------------------------------------------
(* Credential provisioning: createSourceGitCmdRun and generateSSH of       *)
(* cmd/tk/create_source_git.go, and promptPublicKey of                     *)
(* cmd/flux/bootstrap_git.go with the step of the bootstrap that calls it  *)

Commands == {"tk create source git", "flux bootstrap git"}
Auths == {"ssh", "basic", "none"}
KeyPairs == {[PrivateKey |-> "priv1", PublicKey |-> "pub1"],
             [PrivateKey |-> "priv2", PublicKey |-> "pub2"]}
NoKeyPair == [PrivateKey |-> "", PublicKey |-> ""]
HostKeys == {"hk1", "hk2"}
Answers == {"y", "n"}

\* the keys of a secret; a key that maps to "" is not in the secret
SecretKeys == {"identity", "identity.pub", "known_hosts", "username",
               "password"}
PublicKeySecretKey == "identity.pub"
NoData == [k \in SecretKeys |-> ""]

\* the --from-literal arguments of generateSSH: the operands of Sprintf in
\* the order the code gives them
SSHLiterals(kp, hostKey) ==
    [k \in SecretKeys |->
        IF k = "identity" THEN kp.PublicKey
        ELSE IF k = "identity.pub" THEN kp.PrivateKey
        ELSE IF k = "known_hosts" THEN hostKey
        ELSE ""]

BasicLiterals == [k \in SecretKeys |->
                     IF k = "username" THEN "user"
                     ELSE IF k = "password" THEN "pass"
                     ELSE ""]

\* kubectl create secret generic --dry-run=client -oyaml | kubectl apply -f-
\* sets the given keys of the secret
KubectlApply(data, literals) ==
    [k \in SecretKeys |-> IF literals[k] # "" THEN literals[k] ELSE data[k]]

\* the secret sourcesecret.Generate renders for the bootstrap
GeneratedSecret(auth, kp, hostKey) ==
    [k \in SecretKeys |->
        IF auth = "ssh"
        THEN IF k = "identity" THEN kp.PrivateKey
             ELSE IF k = "identity.pub" THEN kp.PublicKey
             ELSE IF k = "known_hosts" THEN hostKey
             ELSE ""
        ELSE BasicLiterals[k]]

CredReturn(err) == [cred EXCEPT !.pc = "returned", !.err = err]

\* the command starts: tk looks at the scheme of the URL and at
\* --username and --password, the bootstrap at --token-auth
CredStart ==
    /\ cred.pc = "start"
    /\ cred' = [cred EXCEPT !.pc =
                   IF cred.cmd = "flux bootstrap git" THEN "GenerateSecret"
                   ELSE IF cred.auth = "ssh" THEN "Generate"
                   ELSE IF cred.auth = "basic" THEN "BasicAuth"
                   ELSE "ApplySource"]
    /\ UNCHANGED store

\* kp, err := generator.Generate()
Generate ==
    /\ cred.pc = "Generate"
    /\ \/ \E kp \in KeyPairs : cred' = [cred EXCEPT !.pc = "Prompt", !.kp = kp]
       \/ cred' = CredReturn("ErrGenerate")
    /\ UNCHANGED store

\* the public key is printed and the prompt run
Prompt ==
    /\ cred.pc = "Prompt"
    /\ \E answer \in Answers :
          cred' = IF answer = "y"
                  THEN [cred EXCEPT !.pc = "ScanHostKey", !.answer = answer]
                  ELSE [CredReturn("aborting") EXCEPT !.answer = answer]
    /\ UNCHANGED store

\* the scan, were its error dropped and the keys saved without a host key
ScanHostKeyOrGoOn ==
    /\ cred.pc = "ScanHostKey"
    /\ \/ \E hk \in HostKeys :
             cred' = [cred EXCEPT !.pc = "SaveKeys", !.hostKey = hk]
       \/ cred' = [cred EXCEPT !.pc = "SaveKeys"]
    /\ UNCHANGED store

\* hostKey, err := ssh.ScanHostKey(host, user, kp)
ScanHostKey ==
    /\ cred.pc = "ScanHostKey"
    /\ \/ \E hk \in HostKeys :
             cred' = [cred EXCEPT !.pc = "SaveKeys", !.hostKey = hk]
       \/ cred' = CredReturn("ErrScanHostKey")
    /\ UNCHANGED store

\* the keys are saved with kubectl
SaveKeys ==
    /\ cred.pc = "SaveKeys"
    /\ \/ /\ store' = [store EXCEPT !.secret =
                          KubectlApply(@, SSHLiterals(cred.kp, cred.hostKey))]
          /\ cred' = [cred EXCEPT !.pc = "ApplySource", !.applied = TRUE]
       \/ /\ cred' = CredReturn("ErrCreateSecret")
          /\ UNCHANGED store

\* generateBasicAuth
BasicAuth ==
    /\ cred.pc = "BasicAuth"
    /\ \/ /\ store' = [store EXCEPT !.secret = KubectlApply(@, BasicLiterals)]
          /\ cred' = [cred EXCEPT !.pc = "ApplySource", !.applied = TRUE]
       \/ /\ cred' = CredReturn("ErrCreateSecret")
          /\ UNCHANGED store

\* upsertGitRepository, with a secretRef if authentication was configured;
\* the command then waits for the source and returns
ApplySource ==
    /\ cred.pc = "ApplySource"
    /\ \/ /\ store' = [store EXCEPT !.source =
                          IF cred.auth = "none" THEN "without secretRef"
                          ELSE "with secretRef"]
          /\ cred' = CredReturn("nil")
       \/ /\ cred' = CredReturn("ErrApplySource")
          /\ UNCHANGED store

\* the bootstrap generates the secret: with a key pair and the scanned
\* host key, or with the user name and password under --token-auth
GenerateSecret ==
    /\ cred.pc = "GenerateSecret"
    /\ \/ \E kp \in KeyPairs, hk \in HostKeys :
             cred' = [cred EXCEPT
                         !.pc = "PostGenerateSecret",
                         !.kp = IF cred.auth = "ssh" THEN kp ELSE NoKeyPair,
                         !.hostKey = IF cred.auth = "ssh" THEN hk ELSE "",
                         !.secret = GeneratedSecret(cred.auth, kp, hk)]
       \/ cred' = CredReturn(IF cred.auth = "ssh" THEN "ErrScanHostKey"
                             ELSE "ErrGenerate")
    /\ UNCHANGED store

\* the callback, were the answer to the prompt not looked at
promptPublicKeyAnyAnswer(secret, answer) ==
    IF secret[PublicKeySecretKey] = "" THEN [err |-> "nil", answer |-> ""]
    ELSE [err |-> "nil", answer |-> answer]

\* promptPublicKey(ctx, secret, options): the error it returns for the
\* answer the user would give, and whether the prompt was run
promptPublicKey(secret, answer) ==
    IF secret[PublicKeySecretKey] = "" THEN [err |-> "nil", answer |-> ""]
    ELSE IF answer = "y" THEN [err |-> "nil", answer |-> answer]
    ELSE [err |-> "aborting", answer |-> answer]

\* the callback given with WithPostGenerateSecretFunc is called
PostGenerateSecret ==
    /\ cred.pc = "PostGenerateSecret"
    /\ \E answer \in Answers :
          LET got == promptPublicKey(cred.secret, answer)
          IN  cred' = IF got.err = "nil"
                      THEN [cred EXCEPT !.pc = "ApplySecret",
                                        !.answer = got.answer]
                      ELSE [CredReturn(got.err) EXCEPT !.answer = got.answer]
    /\ UNCHANGED store

\* the bootstrap stores the secret it generated
ApplySecret ==
    /\ cred.pc = "ApplySecret"
    /\ \/ /\ store' = [store EXCEPT !.secret = KubectlApply(@, cred.secret)]
          /\ cred' = [CredReturn("nil") EXCEPT !.applied = TRUE]
       \/ /\ cred' = CredReturn("ErrApplySecret")
          /\ UNCHANGED store

\* a secret of an earlier run
OldSecret == [k \in SecretKeys |->
                 IF k = "identity" THEN "priv0"
                 ELSE IF k = "identity.pub" THEN "pub0"
                 ELSE IF k = "known_hosts" THEN "hk0"
                 ELSE ""]

CredInit ==
    /\ \E c \in Commands, a \in Auths :
          /\ c = "flux bootstrap git" => a # "none"
          /\ cred = [cmd |-> c, auth |-> a, pc |-> "start", kp |-> NoKeyPair,
                     hostKey |-> "", secret |-> NoData, answer |-> "",
                     applied |-> FALSE, err |-> "nil"]
    /\ store \in [secret : {NoData, OldSecret}, source : {""}]

\* no such command in sight
CredIdle ==
    /\ cred = [cmd |-> "tk create source git", auth |-> "none",
               pc |-> "returned", kp |-> NoKeyPair, hostKey |-> "",
               secret |-> NoData, answer |-> "", applied |-> FALSE,
               err |-> "nil"]
    /\ store = [secret |-> NoData, source |-> ""]

CredNext ==
    \/ CredStart /\ UNCHANGED exceptCred
    \/ Generate /\ UNCHANGED exceptCred
    \/ Prompt /\ UNCHANGED exceptCred
    \/ ScanHostKey /\ UNCHANGED exceptCred
    \/ SaveKeys /\ UNCHANGED exceptCred
    \/ BasicAuth /\ UNCHANGED exceptCred
    \/ ApplySource /\ UNCHANGED exceptCred
    \/ GenerateSecret /\ UNCHANGED exceptCred
    \/ PostGenerateSecret /\ UNCHANGED exceptCred
    \/ ApplySecret /\ UNCHANGED exceptCred

----------------------------------------------------------------------------
(* Manifest generation: generate of pkg/manifestgen/install/manifests.go   *)

MaxRbacLen == 2
MaxCalls == 3

\* text is a sequence of words; "D" is the default namespace
DefaultNS == <<"D">>
Namespaces == {DefaultNS, <<"n">>, <<"D", "n">>}
ComponentLists == {<<"source-controller">>,
                   <<"source-controller", "notification-controller">>}
Options == [Namespace : Namespaces, Components : ComponentLists,
            NotificationController : {"notification-controller"},
            EventsAddr : {"", "http://events/"}]

containsItemString(s, e) == \E i \in DOMAIN s : s[i] = e

\* the events address set whatever the components are
WithEventsAddrAlways(options) ==
    [options EXCEPT !.EventsAddr = "http://notification-controller/"]

\* the options generate works with: the events address is set when the
\* notification controller is among the components
WithEventsAddr(options) ==
    IF containsItemString(options.Components, options.NotificationController)
    THEN [options EXCEPT !.EventsAddr = "http://notification-controller/"]
    ELSE options

Templates == {"namespace.yaml", "labels.yaml", "node-selector.yaml",
              "kustomization.yaml", "roles/kustomization.yaml"}
Generated == Templates \cup {"roles/rbac.yaml"}
Files == Generated \cup {"rbac.yaml"}

\* the rbac.yaml of the manifests base; the word after "namespace:" is a
\* namespace-qualified reference
RbacTexts == UNION {[1..n -> {"namespace:", "D", "x"}] : n \in 1..MaxRbacLen}

\* the statements of generate that write, in their order
Writes == <<"namespace.yaml", "labels.yaml", "node-selector.yaml",
            "kustomization.yaml", "MkdirAll", "roles/kustomization.yaml",
            "copyFile", "ReplaceAll">>

\* execTemplate(options, tmpl, file): the text of the template with the
\* fields of the options filled in
ExecTemplate(options, tmpl) ==
    <<tmpl>> \o options.Namespace \o <<options.EventsAddr>>
        \o options.Components

\* bytes.ReplaceAll(text, old, new) for a one-word old
RECURSIVE ReplaceAll(_, _, _)
ReplaceAll(text, old, new) ==
    IF text = << >> THEN << >>
    ELSE IF <<Head(text)>> = old THEN new \o ReplaceAll(Tail(text), old, new)
    ELSE <<Head(text)>> \o ReplaceAll(Tail(text), old, new)

\* a statement of generate, were rbac.yaml copied only if roles/rbac.yaml
\* is not there yet
WriteKeepingRbac(dir, options, w) ==
    IF w \in Templates THEN [dir EXCEPT ![w] = ExecTemplate(options, w)]
    ELSE IF w = "MkdirAll" THEN dir
    ELSE IF w = "copyFile"
         THEN IF dir["roles/rbac.yaml"] # << >> THEN dir
              ELSE [dir EXCEPT !["roles/rbac.yaml"] = dir["rbac.yaml"]]
    ELSE IF options.Namespace = DefaultNS THEN dir
    ELSE [dir EXCEPT !["roles/rbac.yaml"] =
             ReplaceAll(@, DefaultNS, options.Namespace)]

\* the directory after one statement of generate
Write(dir, options, w) ==
    IF w \in Templates THEN [dir EXCEPT ![w] = ExecTemplate(options, w)]
    ELSE IF w = "MkdirAll" THEN dir
    ELSE IF w = "copyFile"
         THEN [dir EXCEPT !["roles/rbac.yaml"] = dir["rbac.yaml"]]
    ELSE IF options.Namespace = DefaultNS THEN dir
    ELSE [dir EXCEPT !["roles/rbac.yaml"] =
             ReplaceAll(@, DefaultNS, options.Namespace)]

\* the directory after the first n statements
RECURSIVE WriteUpTo(_, _, _)
WriteUpTo(dir, options, n) ==
    IF n = 0 THEN dir
    ELSE Write(WriteUpTo(dir, options, n - 1), options, Writes[n])

GeneratedFiles(dir) == [f \in Generated |-> dir[f]]

\* the files generate leaves in a fresh base with this rbac.yaml
Rendered(options, rbac) ==
    GeneratedFiles(WriteUpTo([f \in Files |-> IF f = "rbac.yaml" THEN rbac
                                              ELSE << >>],
                             WithEventsAddr(options), Len(Writes)))

\* nothing generated, nothing committed
NoFiles == [f \in Generated |-> << >>]

\* generate(base, options): all statements, or the first n of them and
\* the error of the next
generate(n) ==
    /\ manifests.calls < MaxCalls
    /\ base' = WriteUpTo(base, WithEventsAddr(manifests.options), n)
    /\ manifests' =
          IF n < Len(Writes)
          THEN [manifests EXCEPT !.calls = @ + 1, !.err = Writes[n + 1]]
          ELSE [manifests EXCEPT
                   !.calls = @ + 1,
                   !.err = "nil",
                   !.first = IF manifests.first = NoFiles
                             THEN GeneratedFiles(base')
                             ELSE @]

\* the generated files are committed, if they differ from the committed ones
CommitManifests ==
    /\ manifests.err = "nil"
    /\ manifests.tree # GeneratedFiles(base)
    /\ manifests' = [manifests EXCEPT !.tree = GeneratedFiles(base),
                                      !.commits = @ + 1]
    /\ UNCHANGED base

\* a later run starts from a fresh copy of the manifests base
FreshBase ==
    /\ manifests.err # "fresh"
    /\ \E f \in Generated : base[f] # << >>
    /\ base' = [f \in Files |-> IF f \in Generated THEN << >> ELSE base[f]]
    /\ manifests' = [manifests EXCEPT !.err = "fresh"]

GenInit ==
    /\ \E rbac \in RbacTexts :
          base = [f \in Files |-> IF f = "rbac.yaml" THEN rbac ELSE << >>]
    /\ \E o \in Options :
          manifests = [options |-> o, first |-> NoFiles, tree |-> NoFiles,
                       commits |-> 0, calls |-> 0, err |-> "fresh"]

\* no generation in sight
GenIdle ==
    /\ base = [f \in Files |-> << >>]
    /\ manifests = [options |-> CHOOSE o \in Options : o.Namespace = DefaultNS,
                    first |-> NoFiles, tree |-> NoFiles, commits |-> 0,
                    calls |-> MaxCalls, err |-> "fresh"]

GenNext ==
    \/ \E n \in 0..Len(Writes) : generate(n) /\ UNCHANGED exceptGen
    \/ CommitManifests /\ UNCHANGED exceptGen
    \/ FreshBase /\ UNCHANGED exceptGen

----------------------------------------------------------------------------
(* Reconcile request: cmd/flux/reconcile_kustomization.go                  *)

MaxClock == 3
MaxRV == 5

\* retry.DefaultBackoff.Steps
Steps == 4

\* time.Now().Format(time.RFC3339Nano): one text per instant
RFC3339Nano == <<"t1", "t2", "t3", "t4", "t5", "t6">>
Format(t) == RFC3339Nano[t]
Stamps == {""} \cup {Format(t) : t \in 1..(MaxClock + 1)}

ReadyStatuses == {"True", "False"}

\* the kinds of source the switch of reconcileKsCmdRun has a case for
SourceKinds == {"GitRepository", "Bucket"}

\* a source that has been reconciled and one that never was
Sources ==
    {[kind |-> k, ann |-> "", last |-> "", ready |-> r,
      artifact |-> r = "True"] : k \in SourceKinds, r \in {"True", "Unknown"}}

\* what an update stores, with no look at the resource version
UpdateUnchecked(stored, obj) ==
    [err |-> "nil",
     stored |-> [obj EXCEPT !.rv = stored.rv + 1,
                            !.last = stored.last, !.ready = stored.ready]]

\* kubeClient.Update(ctx, obj): "conflict" if the stored object is not the
\* one that was read; the status is not written by an update of the object
Update(stored, obj) ==
    IF stored.rv # obj.rv THEN [err |-> "conflict", stored |-> stored]
    ELSE [err |-> "nil",
          stored |-> [obj EXCEPT !.rv = stored.rv + 1,
                                 !.last = stored.last, !.ready = stored.ready]]

RecReturn(err) ==
    rec' = [rec EXCEPT !.pc = "returned", !.err = err]

\* the flag --with-source
syncKsWithSource == rec.withSource

\* reconcileKsCmdRun up to the request: the object is read and its
\* LastHandledReconcileAt remembered
RecGet(ok) ==
    /\ rec.pc = "start"
    /\ IF ok
       THEN rec' = [rec EXCEPT
                       !.pc = IF syncKsWithSource /\ source.kind \in SourceKinds
                              THEN "sourceGet" ELSE "request",
                       !.obj = ks,
                       !.lastHandledReconcileAt = ks.last]
       ELSE RecReturn("get")
    /\ UNCHANGED <<ks, ctl, clock, source>>

\* the source as the readiness function sees it; nothing in sight
\* changes its generation
SourceView ==
    [kind |-> source.kind, status |-> source.ready,
     message |-> <<"a">>, current |-> TRUE]

\* reconcileSourceBucketCmdRun: the source is read ...
SourceGet(ok) ==
    /\ rec.pc = "sourceGet"
    /\ IF ok THEN rec' = [rec EXCEPT !.pc = "sourceUpdate"]
       ELSE RecReturn("get")
    /\ UNCHANGED <<ks, ctl, clock, source>>

\* ... annotated ...
SourceUpdate(ok) ==
    /\ rec.pc = "sourceUpdate"
    /\ clock < MaxClock
    /\ IF ok
       THEN /\ source' = [source EXCEPT !.ann = Format(clock + 1)]
            /\ clock' = clock + 1
            /\ rec' = [rec EXCEPT !.pc = "sourceWait"]
       ELSE /\ RecReturn("update")
            /\ UNCHANGED <<source, clock>>
    /\ UNCHANGED <<ks, ctl>>

\* the end of the wait for the source, were its error not returned
SourceReadyIgnoringError(ok) ==
    /\ rec.pc = "sourceWait"
    /\ LET res == ConditionFunc(SourceView, ok)
       IN  IF res.err # NoError \/ res.done
           THEN rec' = [rec EXCEPT !.pc = "request", !.seen = source]
           ELSE UNCHANGED rec
    /\ UNCHANGED <<ks, ctl, clock, source>>

\* ... and waited for: isBucketReady under wait.PollImmediate, then the
\* look at the artifact; with nil the run of reconcileKsCmdRun goes on
SourceReady(ok) ==
    /\ rec.pc = "sourceWait"
    /\ LET res == ConditionFunc(SourceView, ok)
       IN  IF res.err # NoError THEN RecReturn(res.err.id)
           ELSE IF ~res.done THEN UNCHANGED rec
           ELSE IF ~source.artifact THEN RecReturn("no artifact")
           ELSE rec' = [rec EXCEPT !.pc = "request", !.sourceDone = TRUE,
                                   !.seen = source]
    /\ UNCHANGED <<ks, ctl, clock, source>>

\* wait.PollImmediate on the source gives up
SourceTimeout ==
    /\ rec.pc = "sourceWait"
    /\ RecReturn("timeout")
    /\ UNCHANGED <<ks, ctl, clock, source>>

\* the source controller reconciles the source
SourceController(ready) ==
    /\ source.ann # source.last
    /\ source' = [source EXCEPT !.last = source.ann, !.ready = ready,
                                !.artifact = @ \/ ready = "True"]
    /\ UNCHANGED <<ks, rec, ctl, clock>>

\* requestKustomizeReconciliation, an attempt: the object is read again
RequestGet(ok) ==
    /\ rec.pc = "request"
    /\ IF ok
       THEN rec' = [rec EXCEPT !.pc = "update", !.obj = ks]
       ELSE RecReturn("get")
    /\ UNCHANGED <<ks, ctl, clock, source>>

\* the attempt goes on: the annotation is set and the object updated; a
\* conflict leads to the next attempt, or ends the loop after Steps attempts
RequestUpdate(ok) ==
    /\ rec.pc = "update"
    /\ clock < MaxClock
    /\ LET annotated == [rec.obj EXCEPT !.ann = Format(clock + 1)]
           update == Update(ks, annotated)
       IN  IF ~ok
           THEN /\ RecReturn("update")
                /\ UNCHANGED <<ks, clock>>
           ELSE IF update.err = "conflict"
           THEN /\ rec' = [rec EXCEPT
                              !.attempts = @ + 1,
                              !.pc = IF rec.attempts + 1 = Steps
                                     THEN "returned" ELSE "request",
                              !.err = IF rec.attempts + 1 = Steps
                                      THEN "conflict" ELSE @]
                /\ UNCHANGED <<ks, clock>>
           ELSE /\ ks' = update.stored
                /\ clock' = clock + 1
                /\ rec' = [rec EXCEPT !.pc = "poll", !.obj = update.stored,
                                      !.stamp = Format(clock + 1)]
    /\ UNCHANGED <<ctl, source>>

\* kustomizeReconciliationHandled, and the end of reconcileKsCmdRun when
\* it returns true
ReconciliationHandled(ok) ==
    /\ rec.pc = "poll"
    /\ IF ~ok THEN RecReturn("get")
       ELSE IF ks.last # rec.lastHandledReconcileAt
       THEN rec' = [rec EXCEPT
                       !.obj = ks,
                       !.completed = TRUE,
                       !.pc = "returned",
                       !.err = IF ks.ready = "False" THEN "failed" ELSE "nil"]
       ELSE rec' = [rec EXCEPT !.obj = ks]
    /\ UNCHANGED <<ks, ctl, clock, source>>

\* wait.PollImmediate gives up
RecTimeout ==
    /\ rec.pc = "poll"
    /\ RecReturn("timeout")
    /\ UNCHANGED <<ks, ctl, clock, source>>

\* the controller starts a reconciliation of the object as it is now
ControllerStart ==
    /\ ctl.pc = "idle"
    /\ ks.ann # ""
    /\ ks.ann # ks.last
    /\ ctl' = [ctl EXCEPT !.pc = "working", !.seen = ks.ann]
    /\ UNCHANGED <<ks, rec, clock, source>>

\* the controller ends it: the status tells the request it has handled
ControllerFinish(ready) ==
    /\ ctl.pc = "working"
    /\ ks.rv < MaxRV
    /\ ks' = [ks EXCEPT !.last = ctl.seen, !.ready = ready, !.rv = @ + 1]
    /\ ctl' = [ctl EXCEPT !.pc = "idle",
                          !.handled = @ \cup {ctl.seen}]
    /\ UNCHANGED <<rec, clock, source>>

\* another client requests a reconciliation
OtherRequest ==
    /\ clock < MaxClock
    /\ ks.rv < MaxRV
    /\ ks' = [ks EXCEPT !.ann = Format(clock + 1), !.rv = @ + 1]
    /\ clock' = clock + 1
    /\ UNCHANGED <<rec, ctl, source>>

\* another client changes the object
OtherWrite ==
    /\ ks.rv < MaxRV
    /\ ks' = [ks EXCEPT !.spec = 1 - @, !.rv = @ + 1]
    /\ UNCHANGED <<rec, ctl, clock, source>>

NoStamps == {}

NoSource == [kind |-> "Bucket", ann |-> "", last |-> "", ready |-> "True",
             artifact |-> TRUE]

RecInit ==
    /\ ks = [ann |-> "", last |-> "", spec |-> 0, ready |-> "True", rv |-> 0]
    /\ \E withSource \in BOOLEAN :
          \* a run without the flag never looks at the source
          /\ source \in IF withSource THEN Sources ELSE {NoSource}
          /\ rec = [pc |-> "start", obj |-> ks, lastHandledReconcileAt |-> "",
                    attempts |-> 0, stamp |-> "", completed |-> FALSE,
                    err |-> "nil", withSource |-> withSource,
                    sourceDone |-> FALSE, seen |-> source]
    /\ ctl = [pc |-> "idle", seen |-> "", handled |-> NoStamps]
    /\ clock = 0

\* no reconcile command in sight
RecIdle ==
    /\ ks = [ann |-> "", last |-> "", spec |-> 0, ready |-> "True",
             rv |-> MaxRV]
    /\ source = NoSource
    /\ rec = [pc |-> "returned", obj |-> ks, lastHandledReconcileAt |-> "",
              attempts |-> 0, stamp |-> "", completed |-> FALSE,
              err |-> "nil", withSource |-> FALSE, sourceDone |-> FALSE,
              seen |-> source]
    /\ ctl = [pc |-> "idle", seen |-> "", handled |-> NoStamps]
    /\ clock = MaxClock

RecNext ==
    \/ \E ok \in BOOLEAN : RecGet(ok) /\ UNCHANGED exceptRec
    \/ \E ok \in BOOLEAN : SourceGet(ok) /\ UNCHANGED exceptRec
    \/ \E ok \in BOOLEAN : SourceUpdate(ok) /\ UNCHANGED exceptRec
    \/ \E ok \in BOOLEAN : SourceReady(ok) /\ UNCHANGED exceptRec
    \/ SourceTimeout /\ UNCHANGED exceptRec
    \/ \E ready \in ReadyStatuses :
          SourceController(ready) /\ UNCHANGED exceptRec
    \/ \E ok \in BOOLEAN : RequestGet(ok) /\ UNCHANGED exceptRec
    \/ \E ok \in BOOLEAN : RequestUpdate(ok) /\ UNCHANGED exceptRec
    \/ \E ok \in BOOLEAN : ReconciliationHandled(ok) /\ UNCHANGED exceptRec
    \/ RecTimeout /\ UNCHANGED exceptRec
    \/ ControllerStart /\ UNCHANGED exceptRec
    \/ \E ready \in ReadyStatuses :
          ControllerFinish(ready) /\ UNCHANGED exceptRec
    \/ OtherRequest /\ UNCHANGED exceptRec
    \/ OtherWrite /\ UNCHANGED exceptRec

----------------------------------------------------------------------------
(* Suspend: suspendCommand.run of cmd/flux/suspend.go                      *)

\* the objects of the kind and their namespaces; rootArgs.namespace is
\* "flux-system"
ObjectNames == <<"a", "b", "c">>
NamespaceOf == [a |-> "flux-system", b |-> "flux-system", c |-> "other"]
Objects == {ObjectNames[i] : i \in DOMAIN ObjectNames}

\* args and --all
SuspendArgs == {<< >>, <<"a">>, <<"zz">>}

RECURSIVE SelectSeq2(_, _)
\* the names of the sequence that are in the set, in their order
SelectSeq2(names, S) ==
    IF names = << >> THEN << >>
    ELSE (IF Head(names) \in S THEN <<Head(names)>> ELSE << >>)
         \o SelectSeq2(Tail(names), S)

\* a list of everything in the namespace, whatever the name asked for
ListWholeNamespace(stored, args) ==
    LET found == {n \in Objects : NamespaceOf[n] = "flux-system"}
        names == SelectSeq2(ObjectNames, found)
    IN  [i \in DOMAIN names |-> [name |-> names[i],
                                  suspend |-> stored[names[i]].suspend]]

\* kubeClient.List with client.InNamespace and, if a name is given,
\* client.MatchingFields{"metadata.name": args[0]}
List(stored, args) ==
    LET found == {n \in Objects :
                     /\ NamespaceOf[n] = "flux-system"
                     /\ Len(args) > 0 => n = args[1]}
        names == SelectSeq2(ObjectNames, found)
    IN  [i \in DOMAIN names |-> [name |-> names[i],
                                  suspend |-> stored[names[i]].suspend]]

\* obj.Spec.Suspend = true
setSuspended(item) == [item EXCEPT !.suspend = TRUE]

\* run is called: the check of the arguments, then the client
SuspendRun(args, all, ok) ==
    /\ sus.pc = "idle"
    /\ IF Len(args) < 1 /\ ~all
       THEN sus' = [sus EXCEPT !.pc = "returned", !.args = args, !.all = all,
                               !.err = "name is required"]
       ELSE IF ~ok
       THEN sus' = [sus EXCEPT !.pc = "returned", !.args = args, !.all = all,
                               !.calls = @ + 1, !.err = "KubeClient"]
       ELSE sus' = [sus EXCEPT !.pc = "List", !.args = args, !.all = all,
                               !.calls = @ + 1]
    /\ UNCHANGED objs

\* the objects are listed; with none found the run ends
SuspendList(ok) ==
    /\ sus.pc = "List"
    /\ IF ~ok
       THEN sus' = [sus EXCEPT !.pc = "returned", !.calls = @ + 1,
                               !.err = "List"]
       ELSE LET list == List(objs, sus.args)
            IN  sus' = [sus EXCEPT
                           !.calls = @ + 1,
                           !.list = list,
                           !.listed = TRUE,
                           !.i = 1,
                           !.pc = IF Len(list) = 0 THEN "returned" ELSE "Loop"]
    /\ UNCHANGED objs

\* one turn of the loop: the item is suspended and updated
SuspendItem(ok) ==
    /\ sus.pc = "Loop"
    /\ LET item == setSuspended(sus.list[sus.i])
       IN  IF ~ok
           THEN /\ sus' = [sus EXCEPT !.pc = "returned", !.calls = @ + 1,
                                      !.list[sus.i] = item, !.err = "Update"]
                /\ UNCHANGED objs
           ELSE /\ objs' = [objs EXCEPT ![item.name] =
                               [suspend |-> item.suspend, rv |-> @.rv + 1]]
                /\ sus' = [sus EXCEPT
                              !.calls = @ + 1,
                              !.list[sus.i] = item,
                              !.i = @ + 1,
                              !.pc = IF sus.i = Len(sus.list)
                                     THEN "returned" ELSE "Loop"]

NoItems == << >>

SusInit ==
    /\ objs \in [Objects -> [suspend : BOOLEAN, rv : {0}]]
    /\ sus = [pc |-> "idle", args |-> << >>, all |-> FALSE, list |-> NoItems,
              listed |-> FALSE, i |-> 0, calls |-> 0, err |-> "nil",
              before |-> objs]

\* no suspend command in sight
SusIdle ==
    /\ objs = [n \in Objects |-> [suspend |-> FALSE, rv |-> 0]]
    /\ sus = [pc |-> "returned", args |-> << >>, all |-> FALSE,
              list |-> NoItems, listed |-> FALSE, i |-> 0, calls |-> 0,
              err |-> "nil", before |-> objs]

SusNext ==
    \/ \E args \in SuspendArgs, all \in BOOLEAN, ok \in BOOLEAN :
          SuspendRun(args, all, ok) /\ UNCHANGED exceptSus
    \/ \E ok \in BOOLEAN : SuspendList(ok) /\ UNCHANGED exceptSus
    \/ \E ok \in BOOLEAN : SuspendItem(ok) /\ UNCHANGED exceptSus

----------------------------------------------------------------------------
(* Versions: CompatibleVersion of internal/utils/utils.go                  *)

MaxVersionLen == 4

\* a version text is a sequence of words: numerals and a prerelease tag
Numerals == {"0", "1"}
VersionWords == Numerals \cup {"rc"}
VersionTexts == UNION {[1..n -> VersionWords] : n \in 1..MaxVersionLen}

NumberOf == [w \in Numerals |-> IF w = "0" THEN 0 ELSE 1]

NoVersion == [err |-> "invalid", major |-> 0, minor |-> 0, patch |-> 0,
              prerelease |-> ""]

\* version.ParseVersion(s): major, minor and patch numbers, then possibly
\* a prerelease tag; anything else is an error
ParseVersion(s) ==
    IF /\ Len(s) \in {3, 4}
       /\ \A i \in 1..3 : s[i] \in Numerals
       /\ Len(s) = 4 => s[4] \notin Numerals
    THEN [err |-> "nil", major |-> NumberOf[s[1]], minor |-> NumberOf[s[2]],
          patch |-> NumberOf[s[3]],
          prerelease |-> IF Len(s) = 4 THEN s[4] ELSE ""]
    ELSE NoVersion

\* the comparison, were it of the major numbers alone and of releases too
CompatibleVersionMajorOnly(binary, targetText) ==
    LET binSv == ParseVersion(binary)
        targetSv == ParseVersion(targetText)
    IN  IF binSv.err # "nil" THEN FALSE
        ELSE IF targetSv.err # "nil" THEN FALSE
        ELSE binSv.major = targetSv.major

CompatibleVersion(binary, targetText) ==
    LET binSv == ParseVersion(binary)
        targetSv == ParseVersion(targetText)
    IN  IF binSv.err # "nil" THEN FALSE
        ELSE IF binSv.prerelease # "" THEN TRUE
        ELSE IF targetSv.err # "nil" THEN FALSE
        ELSE binSv.major = targetSv.major /\ binSv.minor = targetSv.minor

\* the function is called on the two texts
Compatible ==
    /\ ver.pc = "call"
    /\ ver' = [ver EXCEPT !.pc = "done",
                          !.result = CompatibleVersion(ver.binary, ver.target)]

VerInit ==
    \E b \in VersionTexts, t \in VersionTexts :
        ver = [pc |-> "call", binary |-> b, target |-> t, result |-> FALSE]

\* no call in sight
VerIdle ==
    ver = [pc |-> "done", binary |-> <<"0">>, target |-> <<"0">>,
           result |-> FALSE]

VerNext ==
    \/ Compatible /\ UNCHANGED exceptVer

----------------------------------------------------------------------------
(* Install: installCmdRun                                                  *)

\* --components, with the components-extra appended
InstallComponents == {<<"source-controller">>,
                      <<"source-controller", "notification-controller">>,
                      <<"source-controller", "bogus">>}
AllComponents == {"source-controller", "notification-controller"}

InstallFlags == [export : BOOLEAN, dryRun : BOOLEAN, verbose : BOOLEAN,
                 components : InstallComponents]

\* utils.ValidateComponents(components)
ValidateComponents(components) ==
    \A i \in DOMAIN components : components[i] \in AllComponents

\* manifest.Content: an object for each component
Manifest(components) == {components[i] : i \in DOMAIN components}

NoObjects == {}
NoOutput == << >>
NoCalls == << >>

\* the arguments of the kubectl command
kubectlArgs(dryRun) ==
    IF dryRun THEN {"apply", "-f", "--dry-run=client"} ELSE {"apply", "-f"}

\* a kubectl that applies with any arguments
ExecKubectlCommandForReal(objects, args, manifest) == objects \cup manifest

\* utils.ExecKubectlCommand(..., kubectlArgs...): kubectl apply -f of the
\* manifest; with --dry-run=client nothing is sent to the cluster
ExecKubectlCommand(objects, args, manifest) ==
    IF "--dry-run=client" \in args THEN objects ELSE objects \cup manifest

\* installCmdRun up to the written manifest
InstallGenerate(flags, ok) ==
    /\ ins.pc = "idle"
    /\ IF ~ValidateComponents(flags.components)
       THEN ins' = [ins EXCEPT !.flags = flags, !.pc = "returned",
                               !.err = "ValidateComponents"]
       ELSE IF ~ok
       THEN ins' = [ins EXCEPT !.flags = flags, !.pc = "returned",
                               !.err = "install failed"]
       ELSE ins' = [ins EXCEPT !.flags = flags, !.pc = "Output",
                               !.manifest = Manifest(flags.components)]
    /\ UNCHANGED env

\* --export: the manifest goes to the standard output and the run ends;
\* else it is printed if --verbose
InstallOutput ==
    /\ ins.pc = "Output"
    /\ IF ins.flags.export
       THEN ins' = [ins EXCEPT !.stdout = Append(@, ins.manifest),
                               !.pc = "returned"]
       ELSE IF ins.flags.verbose
       THEN ins' = [ins EXCEPT !.stdout = Append(@, ins.manifest),
                               !.pc = "Apply"]
       ELSE ins' = [ins EXCEPT !.pc = "Apply"]
    /\ UNCHANGED env

\* the kubectl command; --dry-run: the run ends after it
InstallApply(ok) ==
    /\ ins.pc = "Apply"
    /\ LET args == kubectlArgs(ins.flags.dryRun)
       IN  IF ~ok
           THEN /\ ins' = [ins EXCEPT !.kubectl = Append(@, args),
                                      !.pc = "returned",
                                      !.err = "install failed"]
                /\ UNCHANGED env
           ELSE /\ env' = ExecKubectlCommand(env, args, ins.manifest)
                /\ ins' = [ins EXCEPT
                              !.kubectl = Append(@, args),
                              !.pc = IF ins.flags.dryRun THEN "returned"
                                     ELSE "Assess"]

\* statusChecker.Assess(componentRefs...)
InstallAssess(ok) ==
    /\ ins.pc = "Assess"
    /\ ins' = [ins EXCEPT !.assessed = TRUE, !.pc = "returned",
                          !.err = IF ok THEN "nil" ELSE "install failed"]
    /\ UNCHANGED env

InsInit ==
    /\ env \in {NoObjects, {"source-controller"}}
    /\ ins = [pc |-> "idle",
              flags |-> [export |-> FALSE, dryRun |-> FALSE,
                         verbose |-> FALSE,
                         components |-> <<"source-controller">>],
              manifest |-> NoObjects, stdout |-> NoOutput,
              kubectl |-> NoCalls, assessed |-> FALSE, err |-> "nil",
              before |-> env]

\* no install command in sight
InsIdle ==
    /\ env = NoObjects
    /\ ins = [pc |-> "returned",
              flags |-> [export |-> FALSE, dryRun |-> FALSE,
                         verbose |-> FALSE,
                         components |-> <<"source-controller">>],
              manifest |-> NoObjects, stdout |-> NoOutput,
              kubectl |-> NoCalls, assessed |-> FALSE, err |-> "nil",
              before |-> env]

InsNext ==
    \/ \E flags \in InstallFlags, ok \in BOOLEAN :
          InstallGenerate(flags, ok) /\ UNCHANGED exceptIns
    \/ InstallOutput /\ UNCHANGED exceptIns
    \/ \E ok \in BOOLEAN : InstallApply(ok) /\ UNCHANGED exceptIns
    \/ \E ok \in BOOLEAN : InstallAssess(ok) /\ UNCHANGED exceptIns

----------------------------------------------------------------------------
(* Upsert and wait: upsertKustomization and createKsCmdRun of              *)
(* cmd/flux/create_kustomization.go                                        *)

MaxWrites == 4
MaxApplies == 2

UpsertKinds == {"Kustomization", "Bucket"}
Specs == {"s1", "s2"}
LabelSets == {"l1", "l2"}

\* the object the command has built: no annotations, no finalizers, no
\* status
Desired == [kind : UpsertKinds, spec : Specs, labels : LabelSets]

NotFound == [exists |-> FALSE, spec |-> "", labels |-> "",
             annotations |-> "", finalizers |-> "", generation |-> 0,
             observedGeneration |-> 0, ready |-> "absent", rv |-> 0]

\* the stored objects a run may find
Existing ==
    {NotFound} \cup
    [exists : {TRUE}, spec : Specs, labels : LabelSets, annotations : {"a1"},
     finalizers : {"finalizers.fluxcd.io"}, generation : {1},
     observedGeneration : {1}, ready : {"True", "False"}, rv : {0}]

\* the status is of the current generation
UpToDateAlways(obj) == TRUE

UpToDate(obj) == obj.generation = obj.observedGeneration

\* the object as the readiness function sees it
View(kind, obj) ==
    [kind |-> kind, status |-> obj.ready,
     message |-> IF obj.ready = "absent" THEN << >> ELSE <<"a">>,
     current |-> UpToDate(obj)]

\* the desired object in place of the existing one
Replaced(existing, desired) ==
    [existing EXCEPT !.labels = desired.labels, !.spec = desired.spec,
                     !.annotations = "", !.finalizers = ""]

\* existing.Labels = kustomization.Labels; existing.Spec = kustomization.Spec
Merged(existing, desired) ==
    [existing EXCEPT !.labels = desired.labels, !.spec = desired.spec]

\* kubeClient.Create: the API server stores the object at generation 1
Created(stored, desired) ==
    [exists |-> TRUE, spec |-> desired.spec, labels |-> desired.labels,
     annotations |-> "", finalizers |-> "", generation |-> 1,
     observedGeneration |-> 0, ready |-> "absent", rv |-> stored.rv + 1]

\* kubeClient.Update of an object that is stored as it was read: the
\* generation grows when the spec changes, the status is not written
Updated(stored, obj) ==
    [obj EXCEPT !.rv = stored.rv + 1,
                !.generation = IF obj.spec # stored.spec THEN stored.generation + 1
                               ELSE stored.generation,
                !.observedGeneration = stored.observedGeneration,
                !.ready = stored.ready]

UpsReturn(err) == ups' = [ups EXCEPT !.pc = "returned", !.err = err]

\* an API server that takes every update
IsConflictNever(stored, obj) == FALSE

\* kubeClient.Update(ctx, &existing): the object carries the resource
\* version of the Get, and the API server rejects the update with a
\* conflict when the stored object has another one
IsConflict(stored, obj) == stored.rv # obj.rv

\* upsertKustomization: the Get
UpsertGet(ok) ==
    /\ ups.pc = "start"
    /\ IF ok THEN ups' = [ups EXCEPT !.pc = "write", !.existing = apiObj]
       ELSE UpsReturn("get")
    /\ UNCHANGED <<apiObj, kc>>

\* upsertKustomization: Create if the object was not found, else Update
UpsertWrite(ok) ==
    /\ ups.pc = "write"
    /\ IF ~ok
       THEN /\ UpsReturn(IF ups.existing.exists THEN "update" ELSE "create")
            /\ UNCHANGED apiObj
       ELSE IF ~ups.existing.exists
       THEN IF apiObj.exists
            THEN /\ UpsReturn("already exists")
                 /\ UNCHANGED apiObj
            ELSE /\ apiObj' = Created(apiObj, ups.desired)
                 /\ ups' = [ups EXCEPT !.pc = "waiting", !.writes = @ + 1,
                                       !.created = @ + 1,
                                       !.first = IF @ = NotFound THEN apiObj'
                                                 ELSE @]
       ELSE IF IsConflict(apiObj, Merged(ups.existing, ups.desired))
       THEN /\ UpsReturn("conflict")
            /\ UNCHANGED apiObj
       ELSE /\ apiObj' = Updated(apiObj, Merged(ups.existing, ups.desired))
            /\ ups' = [ups EXCEPT !.pc = "waiting", !.writes = @ + 1,
                                  !.first = IF @ = NotFound THEN apiObj'
                                            ELSE @]
    /\ UNCHANGED kc

\* createKsCmdRun: a call of the readiness function by wait.PollImmediate
UpsObserve(getOK) ==
    /\ ups.pc = "waiting"
    /\ LET res == ConditionFunc(View(ups.desired.kind, apiObj), getOK)
       IN  ups' = [ups EXCEPT
                      !.polls = IF @ < 2 THEN @ + 1 ELSE @,
                      !.pc = IF res.err # NoError \/ res.done
                             THEN "returned" ELSE "waiting",
                      !.err = IF res.err # NoError THEN res.err.id
                              ELSE IF res.done THEN "nil" ELSE @,
                      !.ready = res.done]
    /\ UNCHANGED <<apiObj, kc>>

\* wait.PollImmediate gives up
UpsTimeout ==
    /\ ups.pc = "waiting"
    /\ ups.polls > 0
    /\ UpsReturn("ErrWaitTimeout")
    /\ UNCHANGED <<apiObj, kc>>

\* the command is run again with the same object
UpsAgain ==
    /\ ups.pc = "returned"
    /\ ups.applies < MaxApplies
    /\ ups' = [ups EXCEPT !.pc = "start", !.applies = @ + 1, !.err = "nil",
                          !.polls = 0, !.ready = FALSE]
    /\ UNCHANGED <<apiObj, kc>>

\* the controller starts to reconcile the generation it finds
KcStart ==
    /\ kc.pc = "idle"
    /\ apiObj.exists
    /\ ~UpToDate(apiObj)
    /\ kc' = [pc |-> "working", seen |-> apiObj.generation]
    /\ UNCHANGED <<apiObj, ups>>

\* the controller writes the status of the generation it has reconciled
KcFinish(ready) ==
    /\ kc.pc = "working"
    /\ apiObj.rv < MaxWrites
    /\ apiObj' = [apiObj EXCEPT !.observedGeneration = kc.seen,
                                !.ready = ready,
                                !.finalizers = "finalizers.fluxcd.io",
                                !.rv = @ + 1]
    /\ kc' = [kc EXCEPT !.pc = "idle"]
    /\ UNCHANGED ups

\* another client annotates the object
OtherAnnotate ==
    /\ apiObj.exists
    /\ apiObj.rv < MaxWrites
    /\ apiObj' = [apiObj EXCEPT
                     !.annotations = IF @ = "a1" THEN "a2" ELSE "a1",
                     !.rv = @ + 1]
    /\ UNCHANGED <<ups, kc>>

UpsInit ==
    /\ apiObj \in Existing
    /\ \E d \in Desired :
          ups = [pc |-> "start", desired |-> d, existing |-> NotFound,
                 first |-> NotFound, writes |-> 0, created |-> 0,
                 applies |-> 1, polls |-> 0, ready |-> FALSE, err |-> "nil"]
    /\ kc = [pc |-> "idle", seen |-> 0]

\* no create command in sight
UpsIdle ==
    /\ apiObj = NotFound
    /\ ups = [pc |-> "returned",
              desired |-> [kind |-> "Kustomization", spec |-> "s1",
                           labels |-> "l1"],
              existing |-> NotFound, first |-> NotFound, writes |-> 0,
              created |-> 0, applies |-> MaxApplies, polls |-> 0,
              ready |-> FALSE, err |-> "nil"]
    /\ kc = [pc |-> "idle", seen |-> 0]

UpsNext ==
    \/ \E ok \in BOOLEAN : UpsertGet(ok) /\ UNCHANGED exceptUps
    \/ \E ok \in BOOLEAN : UpsertWrite(ok) /\ UNCHANGED exceptUps
    \/ \E getOK \in BOOLEAN : UpsObserve(getOK) /\ UNCHANGED exceptUps
    \/ UpsTimeout /\ UNCHANGED exceptUps
    \/ UpsAgain /\ UNCHANGED exceptUps
    \/ KcStart /\ UNCHANGED exceptUps
    \/ \E ready \in {"True", "False"} : KcFinish(ready) /\ UNCHANGED exceptUps
    \/ OtherAnnotate /\ UNCHANGED exceptUps

----------------------------------------------------------------------------
(* Flag values: SourceBucketProvider of                                    *)
(* internal/flags/source_bucket_provider.go                                *)

MaxNameLen == 2
MaxSets == 3

\* a string is a sequence of words: a blank, the provider names, another
NameWords == {" ", "generic", "aws", "x"}
Names == UNION {[1..n -> NameWords] : n \in 0..MaxNameLen}

\* sourcev1.GenericBucketProvider, sourcev1.AmazonBucketProvider
supportedSourceBucketProviders == <<(<<"generic">>), (<<"aws">>)>>

\* strings.TrimSpace(str): leading and trailing blanks are cut
RECURSIVE TrimLeft(_)
TrimLeft(str) ==
    IF str # << >> /\ Head(str) = " " THEN TrimLeft(Tail(str)) ELSE str

RECURSIVE TrimRight(_)
TrimRight(str) ==
    IF str # << >> /\ str[Len(str)] = " "
    THEN TrimRight(SubSeq(str, 1, Len(str) - 1)) ELSE str

TrimSpace(str) == TrimRight(TrimLeft(str))

\* utils.ContainsItemString
ContainsItemString(s, e) == \E i \in DOMAIN s : s[i] = e

\* String(): string(*s)
String(s) == s

\* Set(str): the checks of the name; the receiver is not assigned
ProviderSet(s, str) ==
    IF TrimSpace(str) = << >>
    THEN [err |-> "no source bucket provider given", value |-> s]
    ELSE IF ~ContainsItemString(supportedSourceBucketProviders, str)
    THEN [err |-> "not supported", value |-> s]
    ELSE [err |-> "nil", value |-> s]

\* a call of Set on the flag
FlagSet(str) ==
    /\ set.calls < MaxSets
    /\ LET res == ProviderSet(provider, str)
       IN  /\ provider' = res.value
           /\ set' = [calls |-> set.calls + 1, str |-> str, err |-> res.err]

\* the flag as declared: empty, or with the default of the command
FlgInit ==
    /\ provider \in {<< >>, <<"generic">>}
    /\ set = [calls |-> 0, str |-> << >>, err |-> "nil"]

\* no flag in sight
FlgIdle ==
    /\ provider = << >>
    /\ set = [calls |-> MaxSets, str |-> << >>, err |-> "nil"]

FlgNext ==
    \E str \in Names : FlagSet(str) /\ UNCHANGED exceptFlg

----------------------------------------------------------------------------
(* The plain Git bootstrap: bootstrapGitCmdRun and transportForURL of      *)
(* cmd/flux/bootstrap_git.go                                               *)

\* a URL text is a sequence of words
Schemes == {"https", "ssh", "http", "SSH"}
ToLower(w) == IF w = "SSH" THEN "ssh" ELSE w

URLText(scheme, user, port) ==
    <<scheme, "://">> \o (IF user THEN <<"bob", "@">> ELSE << >>)
    \o <<"h">> \o (IF port THEN <<":", "22">> ELSE << >>) \o <<"/r">>

\* the values of --url: URLs, an scp-like address and a path
URLTexts ==
    {URLText(s, u, p) : s \in Schemes, u \in BOOLEAN, p \in BOOLEAN}
    \cup {<<"bob", "@", "h", ":", "r">>, <<"h", "/r">>}

SSHHostnames == {<< >>, <<"s">>, <<"s", ":", "2222">>}
PrivateKeyFiles == {"", "key", "unreadable"}

BgFlags == [url : URLTexts, tokenAuth : BOOLEAN, sshHostname : SSHHostnames,
            privateKeyFile : PrivateKeyFiles, username : {"git"},
            valid : BOOLEAN]

NoURL == [err |-> "nil", Scheme |-> "", User |-> << >>, Host |-> << >>,
          Path |-> << >>]

\* the first position of a word in a text, 0 if it is not there
IndexOf(t, w) ==
    IF \E i \in DOMAIN t : t[i] = w
    THEN CHOOSE i \in DOMAIN t : t[i] = w /\ \A j \in 1..(i - 1) : t[j] # w
    ELSE 0

\* url.Parse(rawurl): scheme (in lower case), user, host with port, path
Parse(t) ==
    IF Len(t) >= 2 /\ t[2] = "://"
    THEN LET rest == SubSeq(t, 3, Len(t))
             slash == IndexOf(rest, "/r")
             authority == IF slash = 0 THEN rest
                          ELSE SubSeq(rest, 1, slash - 1)
             at == IndexOf(authority, "@")
         IN  [err |-> "nil",
              Scheme |-> ToLower(t[1]),
              User |-> SubSeq(authority, 1, at - 1),
              Host |-> SubSeq(authority, at + 1, Len(authority)),
              Path |-> IF slash = 0 THEN << >>
                       ELSE SubSeq(rest, slash, Len(rest))]
    ELSE IF IndexOf(t, ":") # 0
    THEN [NoURL EXCEPT !.err = "first path segment in URL cannot contain colon"]
    ELSE [NoURL EXCEPT !.Path = t]

\* URL.String()
URLString(u) ==
    (IF u.Scheme # "" THEN <<u.Scheme, "://">> ELSE << >>)
    \o (IF u.User # << >> THEN u.User \o <<"@">> ELSE << >>)
    \o u.Host \o u.Path

\* URL.Hostname(), URL.Port()
Hostname(u) == IF u.Host = << >> THEN << >> ELSE <<u.Host[1]>>
Port(u) == IF Len(u.Host) = 3 THEN u.Host[3] ELSE ""

NoAuth == [err |-> "nil", method |-> "nil"]

\* the transport, were every scheme let through
transportForURLAnyScheme(u, privateKeyFile) ==
    IF u.Scheme = "https" THEN [NoAuth EXCEPT !.method = "BasicAuth"]
    ELSE IF privateKeyFile = "" THEN NoAuth
    ELSE IF privateKeyFile = "unreadable"
    THEN [NoAuth EXCEPT !.err = "ReadFile"]
    ELSE [NoAuth EXCEPT !.method = "PublicKeys"]

\* transportForURL(u): the authentication method for the scheme
transportForURL(u, privateKeyFile) ==
    IF u.Scheme = "https" THEN [NoAuth EXCEPT !.method = "BasicAuth"]
    ELSE IF u.Scheme = "ssh"
    THEN IF privateKeyFile = "" THEN NoAuth
         ELSE IF privateKeyFile = "unreadable"
         THEN [NoAuth EXCEPT !.err = "ReadFile"]
         ELSE [NoAuth EXCEPT !.method = "PublicKeys"]
    ELSE [NoAuth EXCEPT !.err = "scheme is not supported"]

\* "Configure repository URL to match auth config for sync."
SyncURL(args, u) ==
    IF args.tokenAuth
    THEN [u EXCEPT !.User = << >>, !.Scheme = "https", !.Host = Hostname(u)]
    ELSE [u EXCEPT !.User = <<args.username>>, !.Scheme = "ssh",
                   !.Host = IF args.sshHostname # << >>
                            THEN args.sshHostname ELSE @]

\* the host for the scan, were it the host name without the port
SSHHostnameWithoutPort(args, u) ==
    IF args.tokenAuth THEN << >> ELSE Hostname(SyncURL(args, u))

\* secretOpts.SSHHostname = repositoryURL.Host, "configure last as it
\* depends on the config above"; not set with --token-auth
SSHHostname(args, u) ==
    IF args.tokenAuth THEN << >> ELSE SyncURL(args, u).Host

BgReturn(err) == bg' = [bg EXCEPT !.pc = "returned", !.err = err]

\* bootstrapValidate()
BgValidate ==
    /\ bg.pc = "Validate"
    /\ IF bgArgs.valid THEN bg' = [bg EXCEPT !.pc = "Transport"]
       ELSE BgReturn("ErrValidate")
    /\ UNCHANGED bgArgs

\* url.Parse(gitArgs.url) and transportForURL(repositoryURL)
BgTransport ==
    /\ bg.pc = "Transport"
    /\ LET repositoryURL == Parse(bgArgs.url)
           gitAuth == transportForURL(repositoryURL, bgArgs.privateKeyFile)
       IN  IF repositoryURL.err # "nil" THEN BgReturn(repositoryURL.err)
           ELSE IF gitAuth.err # "nil" THEN BgReturn(gitAuth.err)
           ELSE bg' = [bg EXCEPT !.pc = "KubeClient",
                                 !.repositoryURL = repositoryURL,
                                 !.gitAuth = gitAuth.method]
    /\ UNCHANGED bgArgs

\* utils.KubeClient: the environment is contacted from here on
BgKubeClient(ok) ==
    /\ bg.pc = "KubeClient"
    /\ IF ok THEN bg' = [bg EXCEPT !.pc = "TempDir", !.kube = TRUE]
       ELSE bg' = [bg EXCEPT !.pc = "returned", !.err = "ErrKubeClient",
                             !.kube = TRUE]
    /\ UNCHANGED bgArgs

\* buildEmbeddedManifestBase, ioutil.TempDir, gogit.New, and the options:
\* the secret options and the sync options with the URL for the sync
BgTempDir(ok) ==
    /\ bg.pc = "TempDir"
    /\ IF ok
       THEN bg' = [bg EXCEPT
                      !.pc = "Run",
                      !.tmpDir = TRUE,
                      !.SSHHostname = SSHHostname(bgArgs, bg.repositoryURL),
                      !.URL = URLString(SyncURL(bgArgs, bg.repositoryURL))]
       ELSE BgReturn("ErrTempDir")
    /\ UNCHANGED bgArgs

\* bootstrap.Run: the repository is cloned and written, the host of the
\* secret options is scanned when a key pair is made, the sync manifest
\* with the URL of the sync options is written and applied
BgRun(ok) ==
    /\ bg.pc = "Run"
    /\ bg' = [bg EXCEPT !.pc = "returned",
                        !.err = IF ok THEN "nil" ELSE "ErrRun",
                        !.repository = TRUE,
                        !.scanned = bg.SSHHostname,
                        !.manifestURL = IF ok THEN bg.URL ELSE @]
    /\ UNCHANGED bgArgs

NoRun == [pc |-> "Validate", err |-> "nil", repositoryURL |-> NoURL,
          gitAuth |-> "nil", kube |-> FALSE, tmpDir |-> FALSE,
          repository |-> FALSE, SSHHostname |-> << >>, URL |-> << >>,
          scanned |-> << >>, manifestURL |-> << >>]

BgInit ==
    /\ bgArgs \in BgFlags
    /\ bg = NoRun

\* no plain Git bootstrap in sight
BgIdle ==
    /\ bgArgs = [url |-> <<"h", "/r">>, tokenAuth |-> FALSE,
                 sshHostname |-> << >>, privateKeyFile |-> "",
                 username |-> "git", valid |-> FALSE]
    /\ bg = [NoRun EXCEPT !.pc = "returned"]

BgNext ==
    \/ BgValidate /\ UNCHANGED exceptBg
    \/ BgTransport /\ UNCHANGED exceptBg
    \/ \E ok \in BOOLEAN : BgKubeClient(ok) /\ UNCHANGED exceptBg
    \/ \E ok \in BOOLEAN : BgTempDir(ok) /\ UNCHANGED exceptBg
    \/ \E ok \in BOOLEAN : BgRun(ok) /\ UNCHANGED exceptBg

----------------------------------------------------------------------------
(* The tree command: treeKustomization of cmd/flux/tree_kustomization.go   *)

MaxDepth == 4

\* the Kustomizations of the namespace
KsNames == {"a", "b"}

\* an API group is the sequence of the labels of its name
KustomizeGroup == <<"kustomize", "toolkit", "fluxcd", "io">>
HelmGroup == <<"helm", "toolkit", "fluxcd", "io">>
compactGroup == <<"toolkit", "fluxcd", "io">>

\* the parsed ID of an inventory entry; valid is FALSE for an ID that
\* object.ParseObjMetadata rejects
KsEntry(n) ==
    [group |-> KustomizeGroup, kind |-> "Kustomization", name |-> n,
     valid |-> TRUE]
HrEntry ==
    [group |-> HelmGroup, kind |-> "HelmRelease", name |-> "hr",
     valid |-> TRUE]
CmEntry ==
    [group |-> << >>, kind |-> "ConfigMap", name |-> "cm", valid |-> TRUE]
DeployEntry ==
    [group |-> <<"apps">>, kind |-> "Deployment", name |-> "dep",
     valid |-> TRUE]
BadEntry ==
    [group |-> << >>, kind |-> "", name |-> "", valid |-> FALSE]

TreeEntries == {KsEntry(n) : n \in KsNames} \cup {HrEntry, CmEntry, BadEntry}
Inventories ==
    {<< >>} \cup {<<e>> : e \in TreeEntries}
            \cup {<<e, f>> : e \in TreeEntries, f \in TreeEntries}

\* strings.Contains(s, substr)
Contains(s, substr) ==
    \E i \in 0..(Len(s) - Len(substr)) :
        SubSeq(s, i + 1, i + Len(substr)) = substr

\* lines 143-146: the entry is the Kustomization that is being listed
IsItem(e, item) ==
    /\ e.group = KustomizeGroup
    /\ e.kind = "Kustomization"
    /\ e.name = item

\* the frame of the call that is running, and the entries it ranges over
TopFrame == tr.stack[Len(tr.stack)]
TopEntries == inventory[TopFrame.item]

\* the loop of the running call moves to its next entry
Continue(tree) ==
    tr' = [tr EXCEPT !.pc = "loop", !.tree = tree,
                     !.stack[Len(tr.stack)].i = @ + 1]

\* a call returns an error: every caller returns it in turn (182-184)
TreeFail(err) ==
    tr' = [tr EXCEPT !.pc = "returned", !.stack = << >>, !.err = err]

\* lines 127-129 and 188: the call has no entry left and returns nil; its
\* caller goes on with the entry after the one it descended into
TreeReturn ==
    /\ tr.pc = "loop"
    /\ TopFrame.i > Len(TopEntries)
    /\ IF Len(tr.stack) = 1
       THEN tr' = [tr EXCEPT !.pc = "returned", !.stack = << >>]
       ELSE tr' = [tr EXCEPT
                !.stack = [SubSeq(tr.stack, 1, Len(tr.stack) - 1)
                               EXCEPT ![Len(tr.stack) - 1].i = @ + 1]]
    /\ UNCHANGED inventory

\* lines 143-148: only the Kustomization of this call is skipped
TreeSkips(e) == IsItem(e, TopFrame.item)

\* lines 133-150: one entry of the loop, up to tree.Add
TreeEntry ==
    /\ tr.pc = "loop"
    /\ TopFrame.i <= Len(TopEntries)
    /\ LET e == TopEntries[TopFrame.i]
       IN  IF ~e.valid THEN TreeFail("ErrParse")
           ELSE IF tr.compact /\ ~Contains(e.group, compactGroup)
           THEN Continue(tr.tree)
           ELSE IF TreeSkips(e) THEN Continue(tr.tree)
           ELSE LET added == tr.tree \cup {Append(TopFrame.path, e)}
                IN  IF e.group = HelmGroup /\ e.kind = "HelmRelease"
                    THEN tr' = [tr EXCEPT !.pc = "helm", !.tree = added]
                    ELSE IF e.group = KustomizeGroup
                            /\ e.kind = "Kustomization"
                    THEN tr' = [tr EXCEPT !.pc = "get", !.tree = added]
                    ELSE Continue(added)
    /\ UNCHANGED inventory

\* lines 152-169: the objects of the HelmRelease are added below it; out is
\* the result of getHelmReleaseInventory: an error, no object, the objects
TreeHelm(out) ==
    /\ tr.pc = "helm"
    /\ LET e == TopEntries[TopFrame.i]
           path == Append(TopFrame.path, e)
       IN  CASE out = "error" -> TreeFail("ErrHelm")
             [] out = "none" -> Continue(tr.tree)
             [] out = "objects" ->
                   IF tr.compact /\ ~Contains(DeployEntry.group, compactGroup)
                   THEN Continue(tr.tree)
                   ELSE Continue(tr.tree \cup {Append(path, DeployEntry)})
    /\ UNCHANGED inventory

\* lines 171-185: the Kustomization of the entry is read and listed by a
\* nested call; a read that fails (the object is gone, the deadline of the
\* context has passed) ends the command with the error
TreeGet(ok) ==
    /\ tr.pc = "get"
    /\ ok => Len(tr.stack) < MaxDepth
    /\ LET e == TopEntries[TopFrame.i]
       IN  IF ok
           THEN tr' = [tr EXCEPT !.pc = "loop",
                    !.stack = Append(@, [item |-> e.name, i |-> 1,
                                         path |-> Append(TopFrame.path, e)])]
           ELSE TreeFail("failed to find object")
    /\ UNCHANGED inventory

\* treeKsCmdRun, lines 85-101: the named Kustomization has been read and
\* the tree has its root
TreeInit ==
    /\ inventory \in [KsNames -> Inventories]
    /\ \E name \in KsNames, compact \in BOOLEAN :
          tr = [pc |-> "loop", compact |-> compact, tree |-> {}, err |-> "nil",
                stack |-> <<[item |-> name, i |-> 1, path |-> << >>]>>]

TreeIdle ==
    /\ inventory = [n \in KsNames |-> << >>]
    /\ tr = [pc |-> "returned", compact |-> FALSE, tree |-> {}, err |-> "nil",
             stack |-> << >>]

TreeNext ==
    \/ TreeReturn /\ UNCHANGED exceptTree
    \/ TreeEntry /\ UNCHANGED exceptTree
    \/ \E out \in {"error", "none", "objects"} :
          TreeHelm(out) /\ UNCHANGED exceptTree
    \/ \E ok \in BOOLEAN : TreeGet(ok) /\ UNCHANGED exceptTree

----------------------------------------------------------------------------
(* Specifications                                                          *)

\* gogit.New(path, auth) on a fresh, empty working directory
GitInit ==
    /\ repository = "nil"
    /\ origin = ""
    /\ headRef = ""
    /\ head = 0
    /\ index = EmptyTree
    /\ worktree = EmptyTree
    /\ commits = << >>
    /\ remote = [u \in URLs |-> NoBranches]
    /\ ret = NoResult

\* no run has started; the project may exist already; the cluster is fresh
BootInit ==
    /\ pc = [r \in Runs |-> "idle"]
    /\ par = [r \in Runs |-> [token |-> "", ssh |-> FALSE, valid |-> FALSE]]
    /\ tmpDir = [r \in Runs |-> FALSE]
    /\ clone = [r \in Runs |-> NoClone]
    /\ made = [r \in Runs |-> 0]
    /\ pushed = [r \in Runs |-> 0]
    /\ install = [r \in Runs |-> "pending"]
    /\ cause = [r \in Runs |-> "nil"]
    /\ succ = [r \in Runs |-> FALSE]
    /\ hosted \in {[head |-> 0, tree |-> NoManifests],
                   [head |-> 1, tree |-> NoManifests]}
    /\ cluster = [components |-> FALSE, secret |-> NoSecret, sync |-> "",
                  reconciled |-> FALSE]

GitNext ==
    \/ \E u \in URLs, b \in Branches :
          GoGitInit(u, b) /\ UNCHANGED exceptGit
    \/ \E u \in URLs, b \in Branches :
          GoGitClone(u, b) /\ UNCHANGED exceptGit
    \/ \E p \in Paths, c \in RegularKinds :
          /\ p \in RegularPaths \/ worktree[p] # Absent
          /\ GoGitWrite(p, c)
          /\ UNCHANGED exceptGit
    \/ GoGitCommit /\ UNCHANGED exceptGit
    \/ GoGitPush /\ UNCHANGED exceptGit
    \/ GoGitStatus /\ UNCHANGED exceptGit
    \/ GoGitHead /\ UNCHANGED exceptGit
    \/ \E p \in Paths, k \in FileKinds :
          FileSystemChange(p, k) /\ UNCHANGED exceptGit
    \/ \E u \in OtherURLs, b \in OtherBranches, t \in OtherTrees :
          OtherPush(u, b, t) /\ UNCHANGED exceptGit

BootNext ==
    \/ \E r \in Runs, p \in Params : Start(r, p) /\ UNCHANGED exceptBoot
    \/ \E r \in Runs : CheckToken(r) /\ UNCHANGED exceptBoot
    \/ \E r \in Runs : Validate(r) /\ UNCHANGED exceptBoot
    \/ \E r \in Runs : KubeClient(r) /\ UNCHANGED exceptBoot
    \/ \E r \in Runs : TempDir(r) /\ UNCHANGED exceptBoot
    \/ \E r \in Runs : CreateRepository(r) /\ UNCHANGED exceptBoot
    \/ \E r \in Runs : CheckoutBranch(r) /\ UNCHANGED exceptBoot
    \/ \E r \in Runs : GenerateInstall(r) /\ UNCHANGED exceptBoot
    \/ \E r \in Runs : CommitInstall(r) /\ UNCHANGED exceptBoot
    \/ \E r \in Runs : PushInstall(r) /\ UNCHANGED exceptBoot
    \/ \E r \in Runs : ShouldInstall(r) /\ UNCHANGED exceptBoot
    \/ \E r \in Runs : ApplyInstall(r) /\ UNCHANGED exceptBoot
    \/ \E r \in Runs : Credentials(r) /\ UNCHANGED exceptBoot
    \/ \E r \in Runs : GenerateDeployKey(r) /\ UNCHANGED exceptBoot
    \/ \E r \in Runs : AddDeployKey(r) /\ UNCHANGED exceptBoot
    \/ \E r \in Runs : GenerateSync(r) /\ UNCHANGED exceptBoot
    \/ \E r \in Runs : CommitSync(r) /\ UNCHANGED exceptBoot
    \/ \E r \in Runs : PushSync(r) /\ UNCHANGED exceptBoot
    \/ \E r \in Runs : ApplySync(r) /\ UNCHANGED exceptBoot
    \/ \E r \in Runs : WaitSync(r) /\ UNCHANGED exceptBoot
    \/ Reconcile /\ UNCHANGED exceptBoot

\* the repository driver, called in any order, in its surroundings
\* the parts of the model a specification is not about stay as they are
IdleBoot == BootInit /\ hosted.head = 0

InitOfGit ==
    /\ GitInit
    /\ IdleBoot
    /\ PollIdle
    /\ CredIdle
    /\ GenIdle
    /\ RecIdle
    /\ SusIdle
    /\ VerIdle
    /\ InsIdle
    /\ UpsIdle
    /\ FlgIdle
    /\ BgIdle
    /\ TreeIdle

SpecGit == InitOfGit /\ [][GitNext]_vars

\* the bootstrap runs
InitOfBoot ==
    /\ BootInit
    /\ GitInit
    /\ PollIdle
    /\ CredIdle
    /\ GenIdle
    /\ RecIdle
    /\ SusIdle
    /\ VerIdle
    /\ InsIdle
    /\ UpsIdle
    /\ FlgIdle
    /\ BgIdle
    /\ TreeIdle

SpecBoot == InitOfBoot /\ [][BootNext]_vars

InitOfPoll ==
    /\ PollInit
    /\ GitInit
    /\ IdleBoot
    /\ CredIdle
    /\ GenIdle
    /\ RecIdle
    /\ SusIdle
    /\ VerIdle
    /\ InsIdle
    /\ UpsIdle
    /\ FlgIdle
    /\ BgIdle
    /\ TreeIdle

\* the readiness poll of one object
SpecPoll == InitOfPoll /\ [][PollNext]_vars

\* the same, with time passing and the poll running
SpecPollLive ==
    /\ InitOfPoll
    /\ [][PollNext]_vars
    /\ WF_vars(Tick /\ UNCHANGED exceptPoll)
    /\ WF_vars(\E getOK \in BOOLEAN : Observe(getOK) /\ UNCHANGED exceptPoll)

InitOfCred ==
    /\ CredInit
    /\ GitInit
    /\ IdleBoot
    /\ PollIdle
    /\ GenIdle
    /\ RecIdle
    /\ SusIdle
    /\ VerIdle
    /\ InsIdle
    /\ UpsIdle
    /\ FlgIdle
    /\ BgIdle
    /\ TreeIdle

\* one command that provisions a credential
SpecCred == InitOfCred /\ [][CredNext]_vars

InitOfGen ==
    /\ GenInit
    /\ GitInit
    /\ IdleBoot
    /\ PollIdle
    /\ CredIdle
    /\ RecIdle
    /\ SusIdle
    /\ VerIdle
    /\ InsIdle
    /\ UpsIdle
    /\ FlgIdle
    /\ BgIdle
    /\ TreeIdle

\* calls of generate on one manifests base with the same options
SpecGen == InitOfGen /\ [][GenNext]_vars

InitOfRec ==
    /\ RecInit
    /\ GitInit
    /\ IdleBoot
    /\ PollIdle
    /\ CredIdle
    /\ GenIdle
    /\ SusIdle
    /\ VerIdle
    /\ InsIdle
    /\ UpsIdle
    /\ FlgIdle
    /\ BgIdle
    /\ TreeIdle

\* one reconcile command, the controller and other clients
SpecRec == InitOfRec /\ [][RecNext]_vars

InitOfSus ==
    /\ SusInit
    /\ GitInit
    /\ IdleBoot
    /\ PollIdle
    /\ CredIdle
    /\ GenIdle
    /\ RecIdle
    /\ VerIdle
    /\ InsIdle
    /\ UpsIdle
    /\ FlgIdle
    /\ BgIdle
    /\ TreeIdle

\* one suspend command
SpecSus == InitOfSus /\ [][SusNext]_vars

InitOfVer ==
    /\ VerInit
    /\ GitInit
    /\ IdleBoot
    /\ PollIdle
    /\ CredIdle
    /\ GenIdle
    /\ RecIdle
    /\ SusIdle
    /\ InsIdle
    /\ UpsIdle
    /\ FlgIdle
    /\ BgIdle
    /\ TreeIdle

\* calls of CompatibleVersion
SpecVer == InitOfVer /\ [][VerNext]_vars

InitOfIns ==
    /\ InsInit
    /\ GitInit
    /\ IdleBoot
    /\ PollIdle
    /\ CredIdle
    /\ GenIdle
    /\ RecIdle
    /\ SusIdle
    /\ VerIdle
    /\ UpsIdle
    /\ FlgIdle
    /\ BgIdle
    /\ TreeIdle

\* one install command
SpecIns == InitOfIns /\ [][InsNext]_vars

InitOfUps ==
    /\ UpsInit
    /\ GitInit
    /\ IdleBoot
    /\ PollIdle
    /\ CredIdle
    /\ GenIdle
    /\ RecIdle
    /\ SusIdle
    /\ VerIdle
    /\ InsIdle
    /\ FlgIdle
    /\ BgIdle
    /\ TreeIdle

\* a create command run once or twice, the controller and another client
SpecUps == InitOfUps /\ [][UpsNext]_vars

InitOfFlg ==
    /\ FlgInit
    /\ GitInit
    /\ IdleBoot
    /\ PollIdle
    /\ CredIdle
    /\ GenIdle
    /\ RecIdle
    /\ SusIdle
    /\ VerIdle
    /\ InsIdle
    /\ UpsIdle
    /\ BgIdle
    /\ TreeIdle

\* calls of Set on a SourceBucketProvider
SpecFlg == InitOfFlg /\ [][FlgNext]_vars

InitOfBg ==
    /\ BgInit
    /\ GitInit
    /\ IdleBoot
    /\ PollIdle
    /\ CredIdle
    /\ GenIdle
    /\ RecIdle
    /\ SusIdle
    /\ VerIdle
    /\ InsIdle
    /\ UpsIdle
    /\ FlgIdle
    /\ TreeIdle

\* runs of flux bootstrap git
SpecBg == InitOfBg /\ [][BgNext]_vars

InitOfTree ==
    /\ TreeInit
    /\ GitInit
    /\ IdleBoot
    /\ PollIdle
    /\ CredIdle
    /\ GenIdle
    /\ RecIdle
    /\ SusIdle
    /\ VerIdle
    /\ InsIdle
    /\ UpsIdle
    /\ FlgIdle
    /\ BgIdle

\* one run of flux tree kustomization
SpecTree == InitOfTree /\ [][TreeNext]_vars

----------------------------------------------------------------------------
(* Properties of the bootstrap run                                         *)

PushSteps == {"PushInstall", "PushSync"}
SyncSteps == {"GenerateSync", "CommitSync", "PushSync", "ApplySync",
              "WaitSync", "done"}

\* C7: a push rejected as non-fast-forward, because the other run advanced
\* the branch since this run's clone, does not fail the run: the run fetches
\* again and retries.  (A run at a push step has had no rejection before.)
C7_RejectedPushIsRetried ==
    [][\A r \in Runs :
          /\ pc[r] \in PushSteps
          /\ hosted.head # clone[r].base
          /\ pc'[r] # pc[r]
          => ~(pc'[r] = "failed" /\ cause'[r] = "ErrNonFastForward")]_vars

WriteErrors == {"ErrNoToken", "ErrValidate", "ErrPush", "ErrNonFastForward",
                "ErrInstall", "ErrGenerateDeployKey", "ErrAddDeployKey"}

\* C9: a run started after the other run finished, with the same
\* parameters, makes no commit and no push, leaves the branch of the hosted
\* repository and the objects in the cluster as they were at every step, and
\* does not stop at a step that writes.
C9_SecondRunWritesNothing ==
    [][\A r \in Runs :
          succ[r] /\ pc'[r] # pc[r] =>
              /\ hosted' = hosted
              /\ cluster' = cluster
              /\ made'[r] = 0
              /\ pushed'[r] = 0
              /\ pc'[r] = "failed" => cause'[r] \notin WriteErrors]_vars

C9_Witness ==
    \E r \in Runs :
        /\ succ[r] /\ pc[r] = "done"
        /\ made[Other(r)] = 2 /\ pushed[Other(r)] = 2

\* C10: the credential step of a run that finds the secret in the cluster
\* leaves the secret as it is, with a deploy key and with a token.
C10_ExistingSecretUntouched ==
    [][\A r \in Runs :
          /\ pc[r] = "Credentials"
          /\ cluster.secret # NoSecret
          /\ pc'[r] # pc[r]
          => cluster'.secret = cluster.secret]_vars

ValidationSteps == {"CheckToken", "Validate"}
CommitSteps == {"CommitInstall", "CommitSync"}

\* the step after a commit step that found nothing to commit
AfterNoChanges(step) == IF step = "CommitInstall" THEN "ShouldInstall"
                        ELSE "ApplySync"

\* C11: a run whose token is missing or whose flags do not validate never
\* gets past the validation: it has no working directory, no clone, no
\* commit, no push, no install, it ends with the error of the validation,
\* and its validation steps change neither the hosted repository nor the
\* cluster.
C11_ValidationFailsBeforeSideEffects ==
    /\ [](\A r \in Runs :
            pc[r] # "idle" /\ (par[r].token = "" \/ ~par[r].valid) =>
                /\ pc[r] \in ValidationSteps \cup {"failed"}
                /\ pc[r] = "failed" =>
                       cause[r] = IF par[r].token = "" THEN "ErrNoToken"
                                  ELSE "ErrValidate"
                /\ ~tmpDir[r]
                /\ clone[r] = NoClone
                /\ made[r] = 0 /\ pushed[r] = 0
                /\ install[r] = "pending")
    /\ [][\A r \in Runs :
            pc[r] \in ValidationSteps /\ pc'[r] # pc[r] =>
                hosted' = hosted /\ cluster' = cluster]_vars

C11_Witness ==
    /\ pc["r1"] = "failed" /\ cause["r1"] = "ErrValidate"
    /\ pc["r2"] = "failed" /\ cause["r2"] = "ErrNoToken"

\* C12: a commit step that made no commit and reported no error takes the
\* run to the step after the push, with nothing pushed; and a run comes to
\* a push step only from a commit step that made a commit.
C12_NoChangesIsSuccess ==
    [][\A r \in Runs :
          /\ pc[r] \in CommitSteps /\ pc'[r] # pc[r]
             /\ made'[r] = made[r] /\ cause'[r] = "nil"
             => /\ pc'[r] = AfterNoChanges(pc[r])
                /\ pushed'[r] = pushed[r]
                /\ hosted' = hosted
          /\ pc'[r] \in PushSteps /\ pc[r] # pc'[r]
             => pc[r] \in CommitSteps /\ made'[r] = made[r] + 1]_vars

C12_Witness ==
    \E r \in Runs :
        /\ pc[r] = "ApplySync" /\ made[r] = 0 /\ pushed[r] = 0
        /\ pushed[Other(r)] = 2

\* C16: a run that has ended, finished or with the error of any step, has
\* no working directory left.
C16_TmpDirRemovedOnReturn ==
    \A r \in Runs : pc[r] \in {"done", "failed"} => ~tmpDir[r]

C16_Witness ==
    /\ pc["r1"] = "done"
    /\ pc["r2"] = "failed" /\ cause["r2"] = "ErrApplySync"

\* C25: a run whose repository step does not fail goes on to the
\* checkout, whether the repository was created by it or was there; and a
\* run whose checkout leaves it a working copy goes on to the generation of
\* the install manifests, whatever the repository holds.
C25_WorkingCopyLeadsToGenerateInstall ==
    [][\A r \in Runs :
          /\ pc[r] = "CreateRepository" /\ pc'[r] # pc[r] /\ pc'[r] # "failed"
                => pc'[r] = "Checkout"
          /\ pc[r] = "Checkout" /\ pc'[r] # pc[r] /\ pc'[r] # "failed"
                => pc'[r] = "GenerateInstall" /\ clone'[r].base = hosted.head
      ]_vars

C25_Witness ==
    /\ pc["r1"] = "done"
    /\ pc["r2"] = "GenerateInstall"
    /\ clone["r2"].tree.components
    /\ clone["r2"].files = clone["r2"].tree

\* the errors each statement of the run returns
ErrorsOf(step) ==
    CASE step = "CheckToken" -> {"ErrNoToken"}
      [] step = "Validate" -> {"ErrValidate"}
      [] step = "KubeClient" -> {"ErrKubeClient"}
      [] step = "TempDir" -> {"ErrTempDir"}
      [] step = "CreateRepository" -> {"ErrCreateRepository"}
      [] step = "Checkout" -> {"ErrCheckout"}
      [] step = "GenerateInstall" -> {"ErrGenerateInstall"}
      [] step \in CommitSteps -> {"ErrCommit"}
      [] step \in PushSteps -> {"ErrPush", "ErrNonFastForward"}
      [] step = "ApplyInstall" -> {"ErrInstall"}
      [] step = "Credentials" -> {"ErrUpsertSecret"}
      [] step = "GenerateDeployKey" -> {"ErrGenerateDeployKey"}
      [] step = "AddDeployKey" -> {"ErrAddDeployKey"}
      [] step = "GenerateSync" -> {"ErrGenerateSync"}
      [] step = "ApplySync" -> {"ErrApplySync"}
      [] step = "WaitSync" -> {"ErrWaitSync"}
      [] OTHER -> {}

Ended == {"done", "failed"}

\* C31: a step of the run that returns an error ends the run with that
\* error: the run is failed exactly when it holds an error, the error is one
\* of the step it was at, and a run that has ended takes no further step
\* (its state, working copy, commits, pushes and install outcome stay);
\* a run is finished only with no error, and only from the last step, the
\* wait for the reconciled sync objects, having succeeded.
C31_ErrorEndsTheRun ==
    /\ [](\A r \in Runs :
            /\ pc[r] = "failed" <=> cause[r] # "nil"
            /\ install[r] = "failed" => pc[r] = "failed")
    /\ [][\A r \in Runs :
            /\ pc[r] \in Ended =>
                  /\ pc'[r] = pc[r] /\ cause'[r] = cause[r]
                  /\ clone'[r] = clone[r] /\ made'[r] = made[r]
                  /\ pushed'[r] = pushed[r] /\ install'[r] = install[r]
            /\ pc'[r] = "failed" /\ pc[r] # "failed" =>
                  cause'[r] \in ErrorsOf(pc[r])
            /\ pc'[r] = "done" /\ pc[r] # "done" =>
                  pc[r] = "WaitSync" /\ cluster.reconciled
      ]_vars

C31_Witness ==
    /\ pc["r1"] = "failed" /\ cause["r1"] = "ErrNonFastForward"
    /\ made["r1"] = 1 /\ pushed["r1"] = 1
    /\ pc["r2"] = "done"

----------------------------------------------------------------------------
(* Properties of the readiness poll                                        *)

\* a step in which the condition function was called
Observed == poll'.now = poll.now /\ poll' # poll

\* the object was read, and its status is the one the function looks at:
\* always for a Receiver and a GitRepository, and for a Kustomization and a
\* Bucket when it is of the current generation
WasRead == poll'.last.err # ErrGet
Fresh == target.kind \in {"Receiver", "GitRepository"} \/ target.current

\* C13, as stated: an observation of an object without Ready condition, or
\* with status Unknown, gives (not done, no error); status True gives done;
\* status False gives an error, which ends the poll.
C13_ReadyConditionMapping ==
    [][Observed /\ WasRead =>
          /\ target.status \in {"absent", "Unknown"} =>
                 poll'.last = KeepPolling
          /\ target.status = "True" =>
                 poll'.last = Observation(TRUE, NoError)
          /\ target.status = "False" =>
                 /\ ~poll'.last.done /\ poll'.last.err # NoError
                 /\ poll'.pc = "returned" /\ poll'.err = poll'.last.err]_vars

\* C13, amended: the mapping holds for a Receiver and a GitRepository, and
\* for a Kustomization and a Bucket whose status is of the current
\* generation; a Kustomization or Bucket whose observed generation is behind
\* gives (not done, no error) whatever its Ready condition says.
C13_ReadyConditionMappingOfCurrent ==
    [][Observed /\ WasRead =>
          /\ ~Fresh => poll'.last = KeepPolling
          /\ Fresh /\ target.status \in {"absent", "Unknown"} =>
                 poll'.last = KeepPolling
          /\ Fresh /\ target.status = "True" =>
                 poll'.last = Observation(TRUE, NoError)
          /\ Fresh /\ target.status = "False" =>
                 /\ ~poll'.last.done /\ poll'.last.err # NoError
                 /\ poll'.pc = "returned" /\ poll'.err = poll'.last.err
          /\ poll'.last = KeepPolling /\ poll.now < poll.timeout =>
                 poll'.pc = "polling"]_vars

C13_Witness ==
    /\ target.kind = "Kustomization" /\ target.status = "True"
    /\ ~target.current
    /\ poll.pc = "polling" /\ poll.now = 2 /\ poll.seen = 2

\* C14: an observation that reads Ready=False, in a status of the current
\* generation, ends the poll at once, with an error whose text is the
\* message of the condition.
C14_FailedEndsPollWithMessage ==
    [][Observed /\ WasRead /\ Fresh /\ target.status = "False" =>
          /\ poll'.pc = "returned"
          /\ poll'.err.text = target.message]_vars

C40_GetErrorEndsPoll ==
    /\ [][Observed /\ poll'.last.err = ErrGet =>
              /\ poll'.last = Observation(FALSE, ErrGet)
              /\ poll'.last # KeepPolling
              /\ poll'.pc = "returned"
              /\ poll'.err = ErrGet]_vars
    /\ [][poll.last.err = ErrGet => poll' = poll]_vars
    /\ [](poll.err = ErrGet => poll.pc = "returned" /\ poll.last.err = ErrGet)

\* the read fails at a later observation, of an object that is ready
C40_Witness ==
    /\ poll.pc = "returned" /\ poll.err = ErrGet
    /\ poll.now > 0 /\ poll.seen < poll.now
    /\ target.status = "True" /\ target.current

----------------------------------------------------------------------------
(* Properties of the credential provisioning                               *)

TkSSH == cred.cmd = "tk create source git" /\ cred.auth = "ssh"

\* C17: once generateSSH has saved the keys, the secret holds the private
\* key under identity, the public key under identity.pub and the scanned
\* host key under known_hosts.
C17_SecretKeysOfSSH ==
    TkSSH /\ cred.applied =>
        /\ store.secret["identity"] = cred.kp.PrivateKey
        /\ store.secret["identity.pub"] = cred.kp.PublicKey
        /\ store.secret["known_hosts"] = cred.hostKey

\* C18: a failed host key scan ends the command with the error of the scan
\* and leaves the cluster as it was: nothing is saved and no source is
\* applied; and keys are only ever saved together with a scanned host key.
C18_ScanFailureIsFatal ==
    /\ [][cred.pc = "ScanHostKey" /\ cred'.pc = "returned" =>
             cred'.err = "ErrScanHostKey" /\ store' = store]_vars
    /\ [](cred.err = "ErrScanHostKey" =>
             /\ cred.pc = "returned"
             /\ ~cred.applied
             /\ store.source = "")
    /\ [](cred.auth = "ssh" /\ cred.applied =>
             /\ cred.hostKey \in HostKeys
             /\ store.secret["known_hosts"] = cred.hostKey)

C18_Witness ==
    /\ TkSSH /\ cred.err = "ErrScanHostKey"
    /\ cred.kp \in KeyPairs /\ store.secret = OldSecret

\* C19: the prompt is run only with a generated key pair at hand; a
\* declined prompt ends the command with an error, with no secret and no
\* source written; a secret with a key pair is stored, and the host
\* scanned by tk, only after the prompt was accepted; and the callback of
\* the bootstrap does not prompt for a secret without public key.
C19_PromptBeforeStore ==
    /\ [](cred.answer # "" => cred.kp \in KeyPairs)
    /\ [](cred.answer = "n" =>
             /\ cred.pc = "returned" /\ cred.err = "aborting"
             /\ ~cred.applied
             /\ store.source = "")
    /\ [](cred.auth = "ssh" /\ (cred.applied \/ (TkSSH /\ cred.hostKey # ""))
             => cred.answer = "y")
    /\ [](cred.cmd = "flux bootstrap git" /\ cred.auth = "basic" =>
             cred.answer = "")

C19_Witness ==
    /\ cred.cmd = "flux bootstrap git" /\ cred.answer = "n"
    /\ cred.err = "aborting" /\ cred.secret[PublicKeySecretKey] \in {"pub1", "pub2"}

----------------------------------------------------------------------------
(* Properties of the manifest generation                                   *)

\* C20: every call of generate that succeeds leaves the six generated
\* files as the first such call with these options on this base left them,
\* whatever an earlier call or a failed call left behind; and once they are
\* committed, no later generation gives anything to commit.
C20_GenerateIsDeterministic ==
    /\ [][manifests'.calls > manifests.calls /\ manifests'.err = "nil"
             => GeneratedFiles(base') = manifests'.first]_vars
    /\ [](manifests.commits <= 1)

C20_Witness ==
    /\ manifests.calls = 3 /\ manifests.err = "nil" /\ manifests.commits = 1
    /\ manifests.options.Namespace = <<"D", "n">>
    /\ base["roles/rbac.yaml"] = <<"D", "n", "x">>

\* the options that differ from these in exactly one parameter
OneChanged(options) ==
    {o \in Options :
        Cardinality({k \in DOMAIN options : o[k] # options[k]}) = 1}

\* the events address given is overwritten
Overwritten(options, o) ==
    /\ o.EventsAddr # options.EventsAddr
    /\ containsItemString(options.Components, options.NotificationController)

RECURSIVE RewriteRefs(_, _, _, _)
RewriteRefs(text, old, new, ref) ==
    IF text = << >> THEN << >>
    ELSE (IF ref /\ <<Head(text)>> = old THEN new ELSE <<Head(text)>>)
         \o RewriteRefs(Tail(text), old, new, Head(text) = "namespace:")

\* C22: a call of generate that succeeds leaves in roles/rbac.yaml the
\* base rbac.yaml with exactly its namespace-qualified references rewritten
\* to the namespace of the options (a copy, if that is the default one),
\* leaves every other generated file as its template gives it and leaves
\* the base rbac.yaml alone.
C22_OnlyReferencesRewritten ==
    [][manifests'.calls > manifests.calls /\ manifests'.err = "nil"
          => /\ base'["roles/rbac.yaml"] =
                   RewriteRefs(base["rbac.yaml"], DefaultNS,
                               manifests.options.Namespace, FALSE)
             /\ base'["rbac.yaml"] = base["rbac.yaml"]
             /\ \A f \in Templates :
                   base'[f] = ExecTemplate(WithEventsAddr(manifests.options), f)
      ]_vars

----------------------------------------------------------------------------
(* Properties of the reconcile request                                     *)

\* C23: when the command has reported that the reconciliation completed,
\* the controller has handled the request this run wrote.
C23_CompletedAfterOwnRequestHandled ==
    rec.completed => rec.stamp \in ctl.handled

\* C24: the request loop makes at most Steps attempts; it starts another
\* attempt only after an update was rejected because the object had been
\* written since it was read; any other error ends it at once; it ends
\* with the conflict error only after Steps rejected updates; and an update
\* that succeeds changes, in the stored object, the annotation and nothing
\* else that other writers wrote.
C24_RequestIsBoundedRetryOnConflict ==
    /\ [](rec.attempts <= Steps)
    /\ [](rec.err = "conflict" => rec.attempts = Steps /\ rec.pc = "returned")
    /\ [](rec.err \in {"get", "update"} => rec.pc = "returned")
    /\ [][rec'.attempts # rec.attempts
             => /\ rec.pc = "update" /\ rec.obj.rv # ks.rv
                /\ rec'.attempts = rec.attempts + 1
                /\ ks' = ks]_vars
    /\ [][rec.pc = "update" /\ rec'.pc = "poll"
             => ks' = [ks EXCEPT !.ann = rec'.stamp, !.rv = @ + 1]]_vars

C24_Witness ==
    /\ rec.pc = "poll"
    /\ rec.attempts = Steps - 1
    /\ ks.spec = 1
    /\ ks.ann = rec.stamp

SourceSteps == {"sourceGet", "sourceUpdate", "sourceWait"}
RequestSteps == {"request", "update", "poll"}

----------------------------------------------------------------------------
(* Properties of the suspend command                                       *)

\* the objects the arguments select
Selected ==
    {n \in Objects : /\ NamespaceOf[n] = "flux-system"
                     /\ Len(sus.args) > 0 => n = sus.args[1]}

\* C26: a run that has returned nil after a list that was not empty has
\* left every selected object suspended and every other object as it was;
\* a run called with no name and without --all has returned an error and
\* has made no call to the cluster.
C26_SuspendsExactlyTheSelected ==
    /\ sus.pc = "returned" /\ sus.err = "nil" /\ sus.listed /\ Len(sus.list) > 0
          => /\ \A n \in Selected : objs[n].suspend
             /\ \A n \in Objects \ Selected : objs[n] = sus.before[n]
    /\ sus.pc = "returned" /\ Len(sus.args) < 1 /\ ~sus.all
          => /\ sus.err = "name is required"
             /\ sus.calls = 0
             /\ objs = sus.before

C26_Witness ==
    /\ sus.pc = "returned" /\ sus.err = "nil"
    /\ sus.args = << >> /\ sus.all
    /\ Len(sus.list) = 2
    /\ ~sus.before["a"].suspend /\ objs["a"].suspend /\ objs["b"].suspend
    /\ ~objs["c"].suspend

----------------------------------------------------------------------------
(* Properties of the version check                                         *)

\* the text is a version: three numbers, then possibly a prerelease tag
IsVersion(s) ==
    \/ Len(s) = 3 /\ \A i \in 1..3 : s[i] \in Numerals
    \/ Len(s) = 4 /\ (\A i \in 1..3 : s[i] \in Numerals) /\ s[4] = "rc"

\* C27: the result is true exactly when the binary text is a version and
\* either has a prerelease tag, or the target text is a version with the
\* same major and minor numbers.
C27_CompatibleVersion ==
    ver.pc = "done" =>
        (ver.result <=>
            /\ IsVersion(ver.binary)
            /\ \/ Len(ver.binary) = 4
               \/ /\ IsVersion(ver.target)
                  /\ ver.binary[1] = ver.target[1]
                  /\ ver.binary[2] = ver.target[2])

C27_Witness ==
    /\ ver.pc = "done"
    /\ ver.result
    /\ ver.binary = <<"0", "1", "0">>
    /\ ver.target = <<"0", "1", "1", "rc">>

----------------------------------------------------------------------------
(* Properties of the install command                                       *)

\* C28: with --export the run that returns nil has written the manifest
\* to the standard output, and no run has called kubectl or checked the
\* readiness; with --dry-run and without --export every kubectl call is a
\* client dry run and the readiness is not checked; in both modes the
\* objects of the cluster are those from before the run.
C28_ExportAndDryRunLeaveEnv ==
    /\ ins.flags.export
          => /\ ins.kubectl = NoCalls /\ ~ins.assessed /\ env = ins.before
             /\ ins.pc = "returned" /\ ins.err = "nil"
                   => ins.stdout = <<ins.manifest>>
    /\ ins.flags.dryRun /\ ~ins.flags.export
          => /\ \A i \in DOMAIN ins.kubectl :
                   "--dry-run=client" \in ins.kubectl[i]
             /\ ~ins.assessed
             /\ env = ins.before
             /\ ins.kubectl # NoCalls /\ ins.err = "nil"
                   => ins.pc = "returned"

C28_Witness ==
    /\ ins.pc = "returned" /\ ins.err = "nil"
    /\ ins.flags.dryRun /\ ~ins.flags.export
    /\ Len(ins.kubectl) = 1
    /\ "notification-controller" \in ins.manifest
    /\ env = NoObjects

----------------------------------------------------------------------------
(* Properties of upsert and wait                                           *)

\* C29: the wait of the create command ends, ready or failed on the
\* object's condition, only in a step in which the status read is that of
\* the object's generation; a condition of an earlier generation, True or
\* False, leaves it waiting.
C29_StaleStatusDoesNotEndWait ==
    [][/\ ups.pc = "waiting" /\ ups'.pc = "returned"
          /\ ups'.err \in {"nil", "errorString"}
             => /\ apiObj.generation = apiObj.observedGeneration
                /\ ups'.ready = (apiObj.ready = "True")
       /\ ups.pc = "waiting" /\ ups'.polls > ups.polls
          /\ apiObj.generation # apiObj.observedGeneration
             => ups'.pc = "waiting" \/ ups'.err = "ErrGet"
      ]_vars

C29_Witness ==
    /\ ups.pc = "waiting" /\ ups.polls > 0
    /\ ups.created = 0
    /\ apiObj.ready = "True"
    /\ apiObj.generation = 2 /\ apiObj.observedGeneration = 1

\* a step of the run that writes the object
UpsertWrites == ups'.writes > ups.writes

\* C30: the run creates the object when it was not found; when it was
\* found, the update leaves the spec and the labels as desired and the
\* annotations, the finalizers and the status as they were stored; a run
\* whose Get failed writes nothing; and after every write of a run the
\* spec and labels are the ones left by the first.
C30_UpsertKeepsOtherFields ==
    /\ [][UpsertWrites =>
             /\ apiObj'.spec = ups.desired.spec
             /\ apiObj'.labels = ups.desired.labels
             /\ ~ups.existing.exists => ~apiObj.exists /\ apiObj'.exists
             /\ ups.existing.exists =>
                   /\ apiObj'.annotations = apiObj.annotations
                   /\ apiObj'.finalizers = apiObj.finalizers
                   /\ apiObj'.ready = apiObj.ready
                   /\ apiObj'.observedGeneration = apiObj.observedGeneration
             /\ apiObj'.spec = ups'.first.spec
             /\ apiObj'.labels = ups'.first.labels]_vars
    /\ [][ups.pc = "start" /\ ups'.err = "get" =>
             apiObj' = apiObj /\ ups'.pc = "returned"]_vars

C30_Witness ==
    /\ ups.applies = 2 /\ ups.writes = 2 /\ ups.created = 0
    /\ ups.pc = "waiting"
    /\ apiObj.annotations = "a2"
    /\ apiObj.spec = "s2" /\ ups.first.generation = 2
    /\ apiObj.generation = 2

\* C37: an upsert that has read the object and finds it written by
\* another client since, ends at its update with the error, the conflict
\* unless the update failed otherwise, after one attempt and with the
\* stored object untouched; and whenever the update of an upsert is
\* stored, the stored object was the one the upsert had read.
C37_ConcurrentWriteIsConflict ==
    /\ [][/\ ups.pc = "write" /\ ups.existing.exists
          /\ apiObj # ups.existing /\ ups' # ups
          => /\ apiObj' = apiObj
             /\ ups'.pc = "returned"
             /\ ups'.err \in {"conflict", "update"}
             /\ ups'.writes = ups.writes]_vars
    /\ [][UpsertWrites /\ ups.existing.exists => apiObj = ups.existing]_vars
    /\ [](ups.err = "conflict" => ups.pc = "returned")

\* the run has returned the conflict and the annotation another client
\* wrote after the run's Get is in the stored object
C37_Witness ==
    /\ ups.pc = "returned" /\ ups.err = "conflict"
    /\ apiObj.annotations # ups.existing.annotations
    /\ apiObj.spec = ups.existing.spec /\ apiObj.spec # ups.desired.spec

----------------------------------------------------------------------------
(* Properties of the flag values                                           *)

\* C33: after a call of Set that returns nil, String() gives the argument
\* of the call; after a call that returns an error the value is the one
\* before the call.
C33_SetStoresSupportedName ==
    [][set'.calls > set.calls =>
          IF set'.err = "nil" THEN String(provider') = set'.str
          ELSE provider' = provider]_vars

----------------------------------------------------------------------------
(* Properties of the plain Git bootstrap                                   *)

Supported == {"https", "ssh"}
BeyondTransport == {"KubeClient", "TempDir", "Run"}
Touched == bg.kube \/ bg.tmpDir \/ bg.repository

\* C34: a run gets beyond the transport only with a URL of scheme https
\* or ssh, and then with basic credentials for https, public-key
\* authentication for ssh with a private key file that can be read, and no
\* method for ssh without a private key file; a run with a URL of any
\* other scheme, or with a key file that cannot be read, has returned the
\* error of the transport and has created no working directory, has not
\* contacted the environment and has not touched the repository.
C34_TransportForSchemes ==
    LET u == Parse(bgArgs.url)
        key == bgArgs.privateKeyFile
    IN  /\ bg.pc \in BeyondTransport \/ Touched =>
              /\ u.err = "nil" /\ u.Scheme \in Supported
              /\ bg.gitAuth = IF u.Scheme = "https" THEN "BasicAuth"
                              ELSE IF key = "" THEN "nil"
                              ELSE "PublicKeys"
              /\ u.Scheme = "ssh" => key # "unreadable"
        /\ bg.pc = "returned" /\ bgArgs.valid /\ u.err = "nil" =>
              /\ u.Scheme \notin Supported
                    => bg.err = "scheme is not supported" /\ ~Touched
              /\ u.Scheme = "ssh" /\ key = "unreadable"
                    => bg.err = "ReadFile" /\ ~Touched

C34_Witness ==
    /\ bg.pc = "returned" /\ bg.err = "scheme is not supported"
    /\ bgArgs.url[1] = "http" /\ bgArgs.privateKeyFile = "key"

\* C39: once the options are made, without --token-auth the host for the
\* scan is the host, with its port, of the URL the sync manifest gets,
\* which is the value of --ssh-hostname if that is set and the host of
\* --url if not, and the URL has the scheme ssh; with --token-auth the
\* URL has the scheme https, no user and no port.  The sync manifest of a
\* run that succeeded holds that URL and the scan was of that host.
C39_ScanHostIsSyncHost ==
    LET sync == Parse(bg.URL)
    IN  /\ bg.URL # << >> =>
              /\ sync.err = "nil"
              /\ IF bgArgs.tokenAuth
                 THEN /\ sync.Scheme = "https"
                      /\ sync.User = << >>
                      /\ Port(sync) = ""
                 ELSE /\ sync.Scheme = "ssh"
                      /\ bg.SSHHostname = sync.Host
                      /\ sync.Host = IF bgArgs.sshHostname # << >>
                                     THEN bgArgs.sshHostname
                                     ELSE Parse(bgArgs.url).Host
        /\ bg.manifestURL # << >> =>
              bg.manifestURL = bg.URL /\ bg.scanned = bg.SSHHostname

C39_Witness ==
    /\ bg.pc = "returned" /\ bg.err = "nil"
    /\ ~bgArgs.tokenAuth /\ bgArgs.sshHostname = << >>
    /\ bg.scanned = <<"h", ":", "22">>
    /\ bg.manifestURL = <<"ssh", "://", "git", "@", "h", ":", "22", "/r">>
    /\ bgArgs.url[1] = "https"

----------------------------------------------------------------------------
(* Properties of the tree command                                          *)

\* C38: treeKustomization terminates for every inventory graph. The
\* inventories do not change during the call, so a nested call for a
\* Kustomization whose own call is still running meets the same entries
\* and descends again without end; termination is therefore that no
\* Kustomization is on the call stack twice.
C38_NoKustomizationListedInsideItself ==
    \A i, j \in DOMAIN tr.stack :
        tr.stack[i].item = tr.stack[j].item => i = j

====
